---- MODULE Spec2Model ----
(***************************************************************************)
(* Verification model of the numerical core of the moisture-calibration    *)
(* and slope-estimation tool:                                              *)
(*   src/calibration/calibration_core.py     (CalibrationCore)             *)
(*   src/data_processing/slope_calculator.py (SlopeCalculator)             *)
(*                                                                         *)
(* Number representation.  TLC has only 32-bit integers, so the floating   *)
(* point quantities of the program are carried as follows.                 *)
(*   - a pressure or the reference pressure is a signed power of ten,      *)
(*     [k |-> "num", s |-> sign, e |-> decade]  =  s * 10^e,               *)
(*     or the missing value [k |-> "nan", ...];                            *)
(*   - f1 and f2 are integers in units of 1e-6;                            *)
(*   - a logarithm is an extended real in units of 1e-2, an exponent an    *)
(*     extended real in units of 1e-8 (product of the two units above);    *)
(*   - a calibrated value is  m * 10^(lg/1000)  (kind "fin"), or the IEEE  *)
(*     values inf and nan.                                                 *)
(***************************************************************************)
EXTENDS Integers, Sequences, FiniteSets, TLC

VARIABLES
    f1,         \* CalibrationCore.f1      (units of 1e-6)
    f2,         \* CalibrationCore.f2      (units of 1e-6)
    p_ref,      \* CalibrationCore.p_ref   (signed power of ten)
    hist_set,   \* history: arguments of the latest set_parameters call
    inp,        \* the input of a single-call specification, drawn initially
    last,       \* the latest call on the object: operation, arguments, return
    slope_data, \* SlopeCalculator.slope_data
    log         \* history: the value-returning calls a specification records

vars == <<f1, f2, p_ref, hist_set, inp, last, slope_data, log>>

-----------------------------------------------------------------------------
(* Numbers                                                                 *)

Num(s, e) == [k |-> "num", s |-> s, e |-> e]
NaNCell   == [k |-> "nan", s |-> 0, e |-> 0]
Zero      == Num(0, 0)
IsNaN(x)  == x.k = "nan"

\* x <= 0 on signed powers of ten (False on NaN, as every IEEE comparison)
LeqZero(x) == x.k = "num" /\ x.s <= 0

\* x < y on signed powers of ten
DecLess(x, y) ==
    IF x.s # y.s THEN x.s < y.s
    ELSE IF x.s = 1 THEN x.e < y.e
    ELSE IF x.s = -1 THEN x.e > y.e
    ELSE FALSE

ExtFin(v) == [k |-> "fin", v |-> v]
ExtNaN    == [k |-> "nan", v |-> 0]
ExtNegInf == [k |-> "ninf", v |-> 0]
ExtPosInf == [k |-> "pinf", v |-> 0]

\* ln(10) in units of 1e-2
LN10c == 230

\* units of the exponent (1e-8) per unit of f2 (1e-6), and per 1e-3
F2ToExp   == 10 * 10
ExpPerMil == 10 ^ 5
\* one whole unit expressed in exponent units
ExpOne    == 10 ^ 8
\* largest decimal exponent of a finite double, in units of 1e-3 decades
DblMaxLg  == 308 * 1000

-----------------------------------------------------------------------------
(* CalibrationCore: constants of the source                                *)

F1Default == 196798
F2Default == 419073
PRefDefault == Num(1, 0)
\* pressure = np.maximum(pressure, 1e-10)
EpsDecade == -10
\* exponent = np.clip(exponent, -10, 10)
ExpLimit == 10

-----------------------------------------------------------------------------
(* CalibrationCore.calibrate, step by step                                 *)

\* np.maximum(pressure, 1e-10); NaN propagates
ClampPressure(pressure) ==
    IF IsNaN(pressure) THEN pressure
    ELSE IF DecLess(pressure, Num(1, EpsDecade)) THEN Num(1, EpsDecade)
    ELSE pressure

\* ratio = self.p_ref / pressure, pressure > 0 after the clamp
Ratio(pref, pressure) ==
    IF IsNaN(pref) \/ IsNaN(pressure) THEN NaNCell
    ELSE IF pref.s = 0 THEN Zero
    ELSE Num(pref.s * pressure.s, pref.e - pressure.e)

\* np.log(ratio): -inf at 0, nan below 0
LogOf(ratio) ==
    IF IsNaN(ratio) THEN ExtNaN
    ELSE IF ratio.s = 0 THEN ExtNegInf
    ELSE IF ratio.s < 0 THEN ExtNaN
    ELSE ExtFin(ratio.e * LN10c)

\* self.f1 * np.log(ratio) + self.f2
RawExponent(pf1, pf2, lg) ==
    CASE lg.k = "fin"  -> ExtFin(pf1 * lg.v + pf2 * F2ToExp)
      [] lg.k = "ninf" -> IF pf1 > 0 THEN ExtNegInf
                          ELSE IF pf1 < 0 THEN ExtPosInf ELSE ExtNaN
      [] lg.k = "pinf" -> IF pf1 > 0 THEN ExtPosInf
                          ELSE IF pf1 < 0 THEN ExtNegInf ELSE ExtNaN
      [] OTHER         -> ExtNaN

\* np.clip(exponent, -10, 10); a NaN passes through np.clip unchanged
Clip(x, lo, hi) ==
    CASE x.k = "fin"  -> ExtFin(IF x.v < lo THEN lo ELSE IF x.v > hi THEN hi ELSE x.v)
      [] x.k = "ninf" -> ExtFin(lo)
      [] x.k = "pinf" -> ExtFin(hi)
      [] OTHER        -> ExtNaN

\* the exponent calibrate raises the ratio to
Exponent(pf1, pf2, pref, pressure) ==
    Clip(RawExponent(pf1, pf2, LogOf(Ratio(pref, ClampPressure(pressure)))),
         -ExpLimit * ExpOne, ExpLimit * ExpOne)

\* ratio ** exponent as a factor: 10^(lg/1000), 0, inf or nan
Power(ratio, x) ==
    IF IsNaN(ratio) THEN [k |-> "nan", lg |-> 0]
    ELSE IF ratio.s = 1 /\ ratio.e = 0 THEN [k |-> "pow", lg |-> 0]   \* 1 ** anything = 1
    ELSE IF x.k = "nan" THEN [k |-> "nan", lg |-> 0]
    ELSE IF ratio.s = 0 THEN
        IF x.v > 0 THEN [k |-> "zero", lg |-> 0]
        ELSE IF x.v = 0 THEN [k |-> "pow", lg |-> 0]
        ELSE [k |-> "inf", lg |-> 0]
    ELSE IF ratio.s < 0 THEN [k |-> "nan", lg |-> 0]
    ELSE LET lg == ratio.e * (x.v \div ExpPerMil)
         IN  IF lg > DblMaxLg THEN [k |-> "inf", lg |-> 0]
             ELSE [k |-> "pow", lg |-> lg]

\* ppm * factor
Times(ppm, fac) ==
    CASE fac.k = "nan"  -> [k |-> "nan", m |-> 0, lg |-> 0]
      [] fac.k = "inf"  -> IF ppm = 0 THEN [k |-> "nan", m |-> 0, lg |-> 0]
                           ELSE [k |-> "inf", m |-> ppm, lg |-> 0]
      [] fac.k = "zero" -> [k |-> "fin", m |-> 0, lg |-> 0]
      [] OTHER          -> IF ppm = 0 THEN [k |-> "fin", m |-> 0, lg |-> 0]
                           ELSE [k |-> "fin", m |-> ppm, lg |-> fac.lg]

\* faulty variant: the exponent of the previous calibrate call is kept and
\* used again instead of being computed from this call's pressure
calibrate_KeptExponent(pf1, pf2, pref, ppm, pressure) ==
    LET p     == ClampPressure(pressure)
        ratio == Ratio(pref, p)
        expo  == IF last.op = "calibrate" THEN last.exponent
                 ELSE Clip(RawExponent(pf1, pf2, LogOf(ratio)),
                           -ExpLimit * ExpOne, ExpLimit * ExpOne)
    IN  Times(ppm, Power(ratio, expo))

calibrate(pf1, pf2, pref, ppm, pressure) ==
    LET p     == ClampPressure(pressure)
        ratio == Ratio(pref, p)
        expo  == Clip(RawExponent(pf1, pf2, LogOf(ratio)),
                      -ExpLimit * ExpOne, ExpLimit * ExpOne)
    IN  Times(ppm, Power(ratio, expo))

\* the value ppm itself, as a calibrated value
AsValue(ppm) == [k |-> "fin", m |-> ppm, lg |-> 0]
IsFinite(r) == r.k = "fin"

-----------------------------------------------------------------------------
(* Small helpers on sequences and sets                                     *)

Min2(a, b) == IF a < b THEN a ELSE b
Max2(a, b) == IF a > b THEN a ELSE b
Abs(a) == IF a < 0 THEN -a ELSE a

RECURSIVE SumSeq(_)
SumSeq(s) == IF s = <<>> THEN 0 ELSE Head(s) + SumSeq(Tail(s))

RECURSIVE SumSq(_)
SumSq(s) == IF s = <<>> THEN 0 ELSE Head(s) * Head(s) + SumSq(Tail(s))

RECURSIVE SumOver(_, _)
SumOver(S, g) ==
    IF S = {} THEN 0
    ELSE LET x == CHOOSE y \in S : TRUE IN g[x] + SumOver(S \ {x}, g)

RECURSIVE Gcd(_, _)
Gcd(a, b) == IF b = 0 THEN a ELSE Gcd(b, a % b)

RECURSIVE LcmOver(_)
LcmOver(S) ==
    IF S = {} THEN 1
    ELSE LET x == CHOOSE y \in S : TRUE
             r == LcmOver(S \ {x})
         IN  (x * r) \div Gcd(x, r)

\* the subsequence of s at the positions satisfying keep, in order
RECURSIVE Pick(_, _, _)
Pick(s, keep, i) ==
    IF i > Len(s) THEN <<>>
    ELSE (IF keep[i] THEN <<s[i]>> ELSE <<>>) \o Pick(s, keep, i + 1)

-----------------------------------------------------------------------------
(* CalibrationCore.calibrate_single_pair                                   *)
(* A table is [cols |-> set of column names, rows |-> sequence of rows];   *)
(* a row maps each column name to a cell.  Moisture cells are              *)
(* [k |-> "num", v |-> integer] or NaN, pressure cells signed powers of    *)
(* ten or NaN: the loader has already coerced every column to numbers.     *)

MNum(v)  == [k |-> "num", v |-> v]
MNaN     == [k |-> "nan", v |-> 0]
None     == [k |-> "None"]

\* pd.to_numeric(column, errors='coerce'): anything not a number is NaN
ToNumericM(cell) == IF cell.k = "num" THEN cell ELSE MNaN
ToNumericP(cell) == IF cell.k = "num" THEN cell ELSE NaNCell

\* faulty variant: pressure < 0 where the source has pressure <= 0
ValidMask_ZeroPasses(df, moisture_col, pressure_col) ==
    [i \in 1..Len(df.rows) |->
        ~ ( IsNaN(ToNumericM(df.rows[i][moisture_col]))
            \/ IsNaN(ToNumericP(df.rows[i][pressure_col]))
            \/ ( ToNumericP(df.rows[i][pressure_col]).k = "num"
                 /\ ToNumericP(df.rows[i][pressure_col]).s < 0 ) )]

\* valid_mask = ~(isna(moisture) | isna(pressure) | (pressure <= 0))
ValidMask(df, moisture_col, pressure_col) ==
    [i \in 1..Len(df.rows) |->
        ~ ( IsNaN(ToNumericM(df.rows[i][moisture_col]))
            \/ IsNaN(ToNumericP(df.rows[i][pressure_col]))
            \/ LeqZero(ToNumericP(df.rows[i][pressure_col])) )]

\* plot_df[valid_mask].copy(): the rows kept, with their original index
Filter(df, mask) ==
    [cols  |-> df.cols,
     index |-> Pick([i \in 1..Len(df.rows) |-> i - 1], mask, 1),
     rows  |-> Pick(df.rows, mask, 1)]

CalibColumn(moisture_col) == moisture_col \o "_calib"

calibrate_single_pair(pf1, pf2, pref, df, moisture_col, pressure_col) ==
    IF moisture_col \notin df.cols \/ pressure_col \notin df.cols THEN None
    ELSE LET valid_df == Filter(df, ValidMask(df, moisture_col, pressure_col))
             n == Len(valid_df.rows)
         IN  IF n = 0 THEN None
             ELSE [k |-> "record",
                   column |-> moisture_col,
                   calib_column |-> CalibColumn(moisture_col),
                   times |-> IF "relative_time" \in valid_df.cols
                             THEN [i \in 1..n |-> valid_df.rows[i]["relative_time"]]
                             ELSE valid_df.index,
                   values |-> [i \in 1..n |->
                                 calibrate(pf1, pf2, pref,
                                           valid_df.rows[i][moisture_col].v,
                                           valid_df.rows[i][pressure_col])],
                   valid_df |-> valid_df,
                   original_values |-> [i \in 1..n |-> valid_df.rows[i][moisture_col]],
                   pressure_values |-> [i \in 1..n |-> valid_df.rows[i][pressure_col]]]

-----------------------------------------------------------------------------
(* CalibrationCore.batch_calibrate: the result dict is a function from its *)
(* keys to the records                                                     *)

EmptyDict == [x \in {} |-> None]
Put(d, key, val) == [x \in DOMAIN d \cup {key} |-> IF x = key THEN val ELSE d[x]]

\* faulty variant: a moisture column that has a record keeps it
RECURSIVE BatchFrom_KeepFirst(_, _, _, _, _, _)
BatchFrom_KeepFirst(pf1, pf2, pref, df, pairs, calibrated_data) ==
    IF pairs = <<>> THEN calibrated_data
    ELSE LET result == calibrate_single_pair(pf1, pf2, pref, df,
                                             Head(pairs)[1], Head(pairs)[2])
         IN  BatchFrom_KeepFirst(pf1, pf2, pref, df, Tail(pairs),
                       IF result # None
                          /\ result.calib_column \notin DOMAIN calibrated_data
                       THEN Put(calibrated_data, result.calib_column, result)
                       ELSE calibrated_data)

RECURSIVE BatchFrom(_, _, _, _, _, _)
BatchFrom(pf1, pf2, pref, df, pairs, calibrated_data) ==
    IF pairs = <<>> THEN calibrated_data
    ELSE LET result == calibrate_single_pair(pf1, pf2, pref, df,
                                             Head(pairs)[1], Head(pairs)[2])
         IN  BatchFrom(pf1, pf2, pref, df, Tail(pairs),
                       IF result # None
                       THEN Put(calibrated_data, result.calib_column, result)
                       ELSE calibrated_data)

\* faulty variant: the loop ends at the first pair that cannot be calibrated
RECURSIVE BatchUntilNone(_, _, _, _, _, _)
BatchUntilNone(pf1, pf2, pref, df, pairs, calibrated_data) ==
    IF pairs = <<>> THEN calibrated_data
    ELSE LET result == calibrate_single_pair(pf1, pf2, pref, df,
                                             Head(pairs)[1], Head(pairs)[2])
         IN  IF result = None THEN calibrated_data
             ELSE BatchUntilNone(pf1, pf2, pref, df, Tail(pairs),
                                 Put(calibrated_data, result.calib_column, result))

batch_calibrate_UntilNone(pf1, pf2, pref, df, pairs) ==
    BatchUntilNone(pf1, pf2, pref, df, pairs, EmptyDict)

batch_calibrate(pf1, pf2, pref, df, pairs) ==
    BatchFrom(pf1, pf2, pref, df, pairs, EmptyDict)

-----------------------------------------------------------------------------
(* CalibrationCore.validate_calibration                                    *)
(* calibrated_data is the sequence of the dict's records in insertion      *)
(* order; times are integers in units of 1e-4 hour, values integers; a     *)
(* variance and the tolerance are exact fractions [n, d].                  *)

\* round(t, 3) of a numpy float: rint(t * 1000) / 1000, ties to even;
\* the key is in units of 1e-3 hour
RoundKey(t) ==
    LET q == t \div 10
        r == t % 10
    IN  IF r < 5 THEN q
        ELSE IF r > 5 THEN q + 1
        ELSE IF q % 2 = 0 THEN q ELSE q + 1

\* for t, v in zip(times, values): all_values_by_time[round(t, 3)].append(v)
RECURSIVE AddSamples(_, _, _, _)
AddSamples(buckets, times, values, j) ==
    IF j > Min2(Len(times), Len(values)) THEN buckets
    ELSE LET time_key == RoundKey(times[j])
             old == IF time_key \in DOMAIN buckets THEN buckets[time_key] ELSE <<>>
         IN  AddSamples(Put(buckets, time_key, Append(old, values[j])),
                        times, values, j + 1)

RECURSIVE AllValuesByTime(_, _)
AllValuesByTime(calibrated_data, buckets) ==
    IF calibrated_data = <<>> THEN buckets
    ELSE AllValuesByTime(Tail(calibrated_data),
                         AddSamples(buckets, Head(calibrated_data).times,
                                    Head(calibrated_data).values, 1))

\* np.var(values_list) = (n * sum(x^2) - sum(x)^2) / n^2
Variance(values_list) ==
    LET n == Len(values_list)
    IN  [n |-> n * SumSq(values_list) - SumSeq(values_list) * SumSeq(values_list),
         d |-> n * n]

FracLess(a, b) == a.n * b.d < b.n * a.d

\* the keys whose bucket yields a variance: len(values_list) > 1
VarianceKeys(buckets) == {key \in DOMAIN buckets : Len(buckets[key]) > 1}

\* np.mean(variances), over the common denominator of the buckets
AvgVariance(buckets) ==
    LET keys == VarianceKeys(buckets)
        L == LcmOver({Len(buckets[key]) : key \in keys})
        scaled == [key \in keys |->
                     Variance(buckets[key]).n * (L \div Len(buckets[key]))
                                              * (L \div Len(buckets[key]))]
    IN  [n |-> SumOver(keys, scaled), d |-> L * L * Cardinality(keys)]

\* np.max(variances)
MaxVariance(buckets) ==
    LET keys == VarianceKeys(buckets)
        top == CHOOSE key \in keys : \A other \in keys :
                   ~ FracLess(Variance(buckets[key]), Variance(buckets[other]))
    IN  Variance(buckets[top])

\* faulty variant: the two tests in the wrong order
StatusOf_AvgFirst(max_variance, avg_variance, tolerance) ==
    IF FracLess(avg_variance, tolerance) THEN "good"
    ELSE IF FracLess(max_variance, tolerance) THEN "acceptable"
    ELSE "poor"

\* if max_variance < tolerance: good; elif avg_variance < tolerance: acceptable
StatusOf(max_variance, avg_variance, tolerance) ==
    IF FracLess(max_variance, tolerance) THEN "good"
    ELSE IF FracLess(avg_variance, tolerance) THEN "acceptable"
    ELSE "poor"

validate_calibration(calibrated_data, tolerance) ==
    IF Len(calibrated_data) < 2
    THEN [status |-> "insufficient_data",
          message |-> "Need at least 2 calibrated datasets for validation"]
    ELSE LET buckets == AllValuesByTime(calibrated_data, EmptyDict)
         IN  IF VarianceKeys(buckets) = {}
             THEN [status |-> "no_overlap",
                   message |-> "No overlapping time points found"]
             ELSE [status |-> StatusOf(MaxVariance(buckets), AvgVariance(buckets),
                                       tolerance),
                   message |-> "Calibration validation",
                   avg_variance |-> AvgVariance(buckets),
                   max_variance |-> MaxVariance(buckets),
                   num_time_points |-> Cardinality(DOMAIN buckets)]

-----------------------------------------------------------------------------
(* Inputs                                                                  *)

MaxRows    == 2
MaxPairs   == 2
MaxRecords == 2
MaxVal     == 1

F1Set   == {F1Default, 0}
F2Set   == {F2Default, ExpLimit * 10 ^ 6}
PRefSet == {Num(-1, 0), Zero, Num(1, -11), Num(1, 0), Num(1, 1)}
PpmSet  == {0, 2, 41}
PressureSet == {Num(-1, 0), Zero, Num(1, -11), Num(1, -10), Num(1, -1),
                Num(1, 0), Num(1, 1)}

\* tables: column m1 and p1 vary, m2 is always valid, p2 is valid on the odd
\* rows and negative on the even ones
M1Cells == {MNaN, MNum(2)}
P1Cells == {NaNCell, Zero, Num(1, 0)}
ColSets == {{"m1", "m2", "p1", "p2", "relative_time"}, {"m1", "m2", "p1", "p2"}}

MakeRow(i, m, p, cols) ==
    LET full == [m1 |-> m, m2 |-> MNum(41), p1 |-> p,
                 p2 |-> IF i % 2 = 1 THEN Num(1, -1) ELSE Num(-1, 0),
                 relative_time |-> 10 * i]
    IN  [c \in cols |-> full[c]]

TablesOfLen(n) ==
    { [cols |-> cols, rows |-> [i \in 1..n |-> MakeRow(i, ms[i], ps[i], cols)]] :
        ms \in [1..n -> M1Cells], ps \in [1..n -> P1Cells], cols \in ColSets }

Tables == UNION { TablesOfLen(n) : n \in 0..MaxRows }

\* "zz" names a column no table has
PairPool == {<<"m1", "p1">>, <<"m1", "p2">>, <<"m2", "p1">>, <<"zz", "p1">>,
             <<"m1", "zz">>}
PairLists == UNION { [1..n -> PairPool] : n \in 0..MaxPairs }

\* calibrated records for validate_calibration: one or two samples, times
\* ascending, in units of 1e-4 hour (4 -> 0.000, 16 -> 0.002, 25 -> 0.002)
TimeSet    == {4, 16, 25}
SampleLens == 1..2
RecordPool ==
    UNION { { [times |-> ts, values |-> vs] :
                ts \in {t \in [1..n -> TimeSet] :
                           \A i \in 1..n, j \in 1..n : i < j => t[i] <= t[j]},
                vs \in [1..n -> 0..MaxVal] } : n \in SampleLens }
RecordLists == UNION { [1..n -> RecordPool] : n \in 0..MaxRecords }

\* tolerance=0.1 is the default of validate_calibration; 0.2 a caller's choice
TolDefault == [n |-> 1, d |-> 10]
TolSet     == {TolDefault, [n |-> 1, d |-> 5]}

\* the small pools of the whole-object specification
FewTables  == { t \in TablesOfLen(1) : t.rows[1]["m1"] = MNum(2) }
FewPairLists == { <<>>, <<<<"m1", "p1">>>>, <<<<"zz", "p1">>, <<"m1", "p2">>>> }
FewRecordLists ==
    { <<>>,
      << [times |-> <<4>>, values |-> <<0>>], [times |-> <<16>>, values |-> <<1>>] >>,
      << [times |-> <<4>>, values |-> <<0>>], [times |-> <<4>>, values |-> <<1>>] >> }

-----------------------------------------------------------------------------
(* Operations on one CalibrationCore                                       *)

Params == [f1 |-> f1, f2 |-> f2, p_ref |-> p_ref]
DefaultParams == [f1 |-> F1Default, f2 |-> F2Default, p_ref |-> PRefDefault]
NoInput == [k |-> "none"]

\* SlopeCalculator.__init__
SlopeCalculatorInit == slope_data = EmptyDict

\* CalibrationCore.__init__
Construct ==
    /\ f1 = F1Default
    /\ f2 = F2Default
    /\ p_ref = PRefDefault
    /\ hist_set = DefaultParams
    /\ last = [op |-> "init"]
    /\ log = <<>>

\* faulty variant: the first two assignments crossed
set_parameters_Crossed(a1, a2, a3) ==
    /\ f1' = a2
    /\ f2' = a1
    /\ p_ref' = a3
    /\ hist_set' = [f1 |-> a1, f2 |-> a2, p_ref |-> a3]
    /\ last' = [op |-> "set_parameters"]
    /\ UNCHANGED <<inp, slope_data, log>>

set_parameters(a1, a2, a3) ==
    /\ f1' = a1
    /\ f2' = a2
    /\ p_ref' = a3
    /\ hist_set' = [f1 |-> a1, f2 |-> a2, p_ref |-> a3]
    /\ last' = [op |-> "set_parameters"]
    /\ UNCHANGED <<inp, slope_data, log>>

get_parameters ==
    /\ last' = [op |-> "get_parameters", ret |-> Params]
    /\ UNCHANGED <<f1, f2, p_ref, hist_set, inp, slope_data, log>>

CalibrateCall(ppm, pressure) ==
    /\ last' = [op |-> "calibrate", ppm |-> ppm, pressure |-> pressure,
                exponent |-> Exponent(f1, f2, p_ref, pressure),
                ret |-> calibrate(f1, f2, p_ref, ppm, pressure)]
    /\ UNCHANGED <<f1, f2, p_ref, hist_set, inp, slope_data>>

Calibrate(ppm, pressure) == CalibrateCall(ppm, pressure) /\ UNCHANGED log

CalibrateSinglePairCall(df, moisture_col, pressure_col) ==
    /\ last' = [op |-> "calibrate_single_pair", df |-> df,
                moisture_col |-> moisture_col, pressure_col |-> pressure_col,
                ret |-> calibrate_single_pair(f1, f2, p_ref, df,
                                              moisture_col, pressure_col)]
    /\ UNCHANGED <<f1, f2, p_ref, hist_set, inp, slope_data>>

CalibrateSinglePair(df, moisture_col, pressure_col) == CalibrateSinglePairCall(df, moisture_col, pressure_col) /\ UNCHANGED log

BatchCalibrateCall(df, pairs) ==
    /\ last' = [op |-> "batch_calibrate", df |-> df, pairs |-> pairs,
                ret |-> batch_calibrate(f1, f2, p_ref, df, pairs)]
    /\ UNCHANGED <<f1, f2, p_ref, hist_set, inp, slope_data>>

BatchCalibrate(df, pairs) == BatchCalibrateCall(df, pairs) /\ UNCHANGED log

ValidateCalibration(calibrated_data, tolerance) ==
    /\ last' = [op |-> "validate_calibration",
                calibrated_data |-> calibrated_data, tolerance |-> tolerance,
                ret |-> validate_calibration(calibrated_data, tolerance)]
    /\ UNCHANGED <<f1, f2, p_ref, hist_set, inp, slope_data, log>>

-----------------------------------------------------------------------------
(* Spec: any sequence of calls on one CalibrationCore                      *)

Init == Construct /\ SlopeCalculatorInit /\ inp = NoInput

Next ==
    \/ \E a1 \in F1Set, a2 \in F2Set, a3 \in PRefSet : set_parameters(a1, a2, a3)
    \/ get_parameters
    \/ \E ppm \in PpmSet, pressure \in PressureSet : Calibrate(ppm, pressure)
    \/ \E df \in FewTables, pair \in PairPool :
           CalibrateSinglePair(df, pair[1], pair[2])
    \/ \E df \in FewTables, pairs \in FewPairLists : BatchCalibrate(df, pairs)
    \/ \E recs \in FewRecordLists : ValidateCalibration(recs, TolDefault)

Spec == Init /\ [][Next]_vars

(* SpecPair: one table, drawn initially; optionally one set_parameters,    *)
(* then one calibrate_single_pair or batch_calibrate on the table          *)

InitPair == Construct /\ SlopeCalculatorInit /\ inp \in [df : Tables]

NextPair ==
    \/ /\ last.op = "init"
       /\ set_parameters(0, ExpLimit * 10 ^ 6, Num(1, 1))
    \/ /\ last.op \in {"init", "set_parameters"}
       /\ \E pair \in PairPool : CalibrateSinglePair(inp.df, pair[1], pair[2])
    \/ /\ last.op \in {"init", "set_parameters"}
       /\ \E pairs \in PairLists : BatchCalibrate(inp.df, pairs)

SpecPair == InitPair /\ [][NextPair]_vars

(* SpecValidate: one validate_calibration call on records drawn initially  *)

InitValidate == Construct /\ SlopeCalculatorInit /\ inp \in [recs : RecordLists, tol : TolSet]

NextValidate ==
    /\ last.op = "init"
    /\ ValidateCalibration(inp.recs, inp.tol)

SpecValidate == InitValidate /\ [][NextValidate]_vars

-----------------------------------------------------------------------------
(* Properties of CalibrationCore                                           *)

EpsPressure == Num(1, EpsDecade)

\* C1: identity at reference pressure: for every reading and every parameter
\* set, calibrate(ppm, pressure) with pressure equal to p_ref returns ppm
C1_IdentityAtReference ==
    (last.op = "calibrate" /\ last.pressure = p_ref)
        => last.ret = AsValue(last.ppm)

\* the same identity for a reference pressure that the clamp leaves alone
IdentityAtUnclampedReference ==
    (last.op = "calibrate" /\ last.pressure = p_ref /\ ~ DecLess(p_ref, EpsPressure))
        => last.ret = AsValue(last.ppm)

\* C2: for every pressure <= 0 and every parameter set, calibrate returns a
\* finite number, equal to the result at the clamped pressure 1e-10
C2_NonPositivePressureFinite ==
    (last.op = "calibrate" /\ LeqZero(last.pressure))
        => /\ IsFinite(last.ret)
           /\ last.ret = calibrate(f1, f2, p_ref, last.ppm, EpsPressure)

\* the same for a positive reference pressure
NonPositivePressureFiniteForPositiveRef ==
    (last.op = "calibrate" /\ LeqZero(last.pressure) /\ p_ref.s = 1)
        => /\ IsFinite(last.ret)
           /\ last.ret = calibrate(f1, f2, p_ref, last.ppm, EpsPressure)

InExponentRange(x) ==
    /\ x.k = "fin"
    /\ -ExpLimit * ExpOne <= x.v
    /\ x.v <= ExpLimit * ExpOne

\* C3: for all f1, f2, p_ref and every pressure > 0, the exponent the ratio
\* is raised to lies in [-10, 10]
C3_ExponentBound ==
    (last.op = "calibrate" /\ last.pressure.s = 1) => InExponentRange(last.exponent)

\* the same for a positive reference pressure
ExponentBoundForPositiveRef ==
    (last.op = "calibrate" /\ last.pressure.s = 1 /\ p_ref.s = 1)
        => InExponentRange(last.exponent)

\* the samples (record, position) of the records whose time rounds to key
SamplesOf(recs) ==
    UNION { { <<r, j>> : j \in 1..Min2(Len(recs[r].times), Len(recs[r].values)) } :
            r \in 1..Len(recs) }
KeysOf(recs) == { RoundKey(recs[x[1]].times[x[2]]) : x \in SamplesOf(recs) }
SamplesAt(recs, key) ==
    { x \in SamplesOf(recs) : RoundKey(recs[x[1]].times[x[2]]) = key }
RecordsAt(recs, key) == { x[1] : x \in SamplesAt(recs, key) }
SomeBucketYieldsVariance(recs) ==
    \E key \in KeysOf(recs) : Cardinality(SamplesAt(recs, key)) >= 2

\* C4: the status of validate_calibration is a total function of the input:
\* insufficient_data below 2 records; else no_overlap when no bucket yields a
\* variance; else good when max < tolerance, acceptable when avg < tolerance
\* <= max, poor when avg >= tolerance
C4_StatusTotal ==
    last.op = "validate_calibration" =>
        LET recs == last.calibrated_data
            tol  == last.tolerance
            ret  == last.ret
        IN  /\ ret.status \in {"insufficient_data", "no_overlap", "good",
                               "acceptable", "poor"}
            /\ (Len(recs) < 2 => ret.status = "insufficient_data")
            /\ (Len(recs) >= 2 /\ ~ SomeBucketYieldsVariance(recs)
                    => ret.status = "no_overlap")
            /\ (Len(recs) >= 2 /\ SomeBucketYieldsVariance(recs) =>
                    /\ (FracLess(ret.max_variance, tol) => ret.status = "good")
                    /\ (FracLess(ret.avg_variance, tol)
                          /\ ~ FracLess(ret.max_variance, tol)
                            => ret.status = "acceptable")
                    /\ (~ FracLess(ret.avg_variance, tol) => ret.status = "poor"))

C4_Witness ==
    /\ last.op = "validate_calibration"
    /\ last.ret.status = "acceptable"

\* C5: given two or more records, the status is no_overlap exactly when no
\* bucket received values from two or more distinct records
C5_NoOverlapIffNoSharedBucket ==
    (last.op = "validate_calibration" /\ Len(last.calibrated_data) >= 2) =>
        ( last.ret.status = "no_overlap"
            <=> \A key \in KeysOf(last.calibrated_data) :
                    Cardinality(RecordsAt(last.calibrated_data, key)) < 2 )

\* a row with a numeric moisture value and a numeric pressure > 0
GoodRow(row, moisture_col, pressure_col) ==
    /\ row[moisture_col].k = "num"
    /\ row[pressure_col].k = "num"
    /\ row[pressure_col].s = 1

\* C6: calibrate_single_pair returns None exactly when a column is absent or
\* no row has a numeric moisture and a pressure > 0; a returned record's
\* valid_df holds only such rows, and times and values have one entry per
\* such row of the table
C6_NoneIffNothingToCalibrate ==
    last.op = "calibrate_single_pair" =>
        LET df  == last.df
            m   == last.moisture_col
            p   == last.pressure_col
            ret == last.ret
            absent == m \notin df.cols \/ p \notin df.cols
            good == IF absent THEN {}
                    ELSE { i \in 1..Len(df.rows) : GoodRow(df.rows[i], m, p) }
        IN  /\ (ret = None <=> (absent \/ good = {}))
            /\ (ret # None =>
                  /\ \A i \in 1..Len(ret.valid_df.rows) :
                         GoodRow(ret.valid_df.rows[i], m, p)
                  /\ Len(ret.valid_df.rows) = Cardinality(good)
                  /\ Len(ret.times) = Cardinality(good)
                  /\ Len(ret.values) = Cardinality(good))

C6_Witness ==
    /\ last.op = "calibrate_single_pair"
    /\ last.ret # None
    /\ Len(last.ret.valid_df.rows) < Len(last.df.rows)

\* the positions of the pairs that calibrate_single_pair can calibrate
Calibratable(df, pairs) ==
    { i \in 1..Len(pairs) :
        calibrate_single_pair(f1, f2, p_ref, df, pairs[i][1], pairs[i][2]) # None }

\* C7: batch_calibrate returns, for every list of pairs, a map that holds the
\* key <moisture_col>_calib exactly for the moisture columns of the pairs that
\* calibrate_single_pair can calibrate; a null pair adds nothing and ends
\* nothing
C7_BatchOmitsNullPairs ==
    last.op = "batch_calibrate" =>
        DOMAIN last.ret =
            { CalibColumn(last.pairs[i][1]) : i \in Calibratable(last.df, last.pairs) }

C7_Witness ==
    /\ last.op = "batch_calibrate"
    /\ \E i, j \in 1..Len(last.pairs) :
          /\ i < j
          /\ i \notin Calibratable(last.df, last.pairs)
          /\ j \in Calibratable(last.df, last.pairs)
    /\ DOMAIN last.ret # {}

\* C8: the three parameters are those of the latest set_parameters call, or
\* the defaults if there was none, whatever other calls were made; and
\* get_parameters returns them
C8_ParametersFrame ==
    /\ Params = hist_set
    /\ (last.op = "get_parameters" => last.ret = hist_set)
    /\ (last.op = "init" => Params = DefaultParams)

C8_Witness ==
    /\ last.op = "get_parameters"
    /\ last.ret # DefaultParams

-----------------------------------------------------------------------------
(* SlopeCalculator (src/data_processing/slope_calculator.py)               *)
(*                                                                         *)
(* Time is counted in ticks of 1.2 s = 1/3000 hour, so that the 0.001 h of *)
(* the np.arange calls is 3 ticks.  A parameter given in minutes is        *)
(* carried in units of 0.02 min and one given in seconds in units of 1.2 s,*)
(* both one tick: the divisions by 60.0 and 3600.0 change the unit, not    *)
(* the integer.  Channel values are integers (ppm) or NaN; a slope and an  *)
(* r_squared are exact fractions [n, d] in lowest terms, the slope in      *)
(* ppm/hour.                                                               *)

TicksPerHour == 3 * 1000
ArangeEps    == 3
SlopeLimit   == 1000

\* the declared defaults: 30.0 min, 15.0 min
DefaultIntervalMinutes == 30 * 50
DefaultWindowMinutes   == 30 * 50
DefaultSideMinutes     == 15 * 50

Frac(n, d) ==
    LET g == Gcd(Abs(n), Abs(d))
        s == IF d < 0 THEN -1 ELSE 1
    IN  [n |-> s * (n \div g), d |-> s * (d \div g)]
FracInt(i)    == [n |-> i, d |-> 1]
FracAdd(a, b) == Frac(a.n * b.d + b.n * a.d, a.d * b.d)
FracSub(a, b) == Frac(a.n * b.d - b.n * a.d, a.d * b.d)
FracMul(a, b) ==
    LET g1 == Gcd(Abs(a.n), b.d)
        g2 == Gcd(Abs(b.n), a.d)
    IN  Frac((a.n \div g1) * (b.n \div g2), (a.d \div g2) * (b.d \div g1))
FracDivInt(a, i) == FracMul(a, Frac(1, i))

RECURSIVE FracSum(_)
FracSum(s) == IF s = <<>> THEN FracInt(0) ELSE FracAdd(Head(s), FracSum(Tail(s)))

Returned(value) == [k |-> "return", value |-> value]
Raised(exc)     == [k |-> "raise", exc |-> exc]

\* the time axis of a table: relative_time if the table has it, else the
\* offsets of the timestamps of time_column from the earliest one, else the
\* row number in hours
TimeData(data, time_column) ==
    LET n == Len(data.rows)
    IN  IF "relative_time" \in data.cols
        THEN [i \in 1..n |-> data.rows[i]["relative_time"]]
        ELSE IF time_column \in data.cols
        THEN LET ts == [i \in 1..n |-> data.rows[i][time_column]]
                 valid == {i \in 1..n : ts[i].k = "num"}
                 first == CHOOSE v \in {ts[i].v : i \in valid} :
                              \A i \in valid : v <= ts[i].v
             IN  [i \in 1..n |-> IF i \in valid THEN MNum(ts[i].v - first)
                                 ELSE MNaN]
        ELSE [i \in 1..n |-> MNum((i - 1) * TicksPerHour)]

\* Series.min() and Series.max() skip NaN and are NaN on an all-NaN series
ValidTimes(time_data) ==
    {time_data[i].v : i \in {j \in 1..Len(time_data) : time_data[j].k = "num"}}
MinTime(time_data) ==
    IF ValidTimes(time_data) = {} THEN MNaN
    ELSE MNum(CHOOSE v \in ValidTimes(time_data) :
                  \A u \in ValidTimes(time_data) : v <= u)
MaxTime(time_data) ==
    IF ValidTimes(time_data) = {} THEN MNaN
    ELSE MNum(CHOOSE v \in ValidTimes(time_data) :
                  \A u \in ValidTimes(time_data) : v >= u)

\* np.arange(start, stop, step) for step > 0: start + k*step below stop
Arange(start, stop, step) ==
    LET count == IF stop <= start THEN 0
                 ELSE ((stop - start - 1) \div step) + 1
    IN  [k \in 1..count |-> start + (k - 1) * step]

\* valid_mask: rows whose value in col and whose time are both present
\* faulty variant: a missing value stays in the regression, as a zero
ValidRows_MissingAsZero(data, time_data, col) ==
    SelectSeq([i \in 1..Len(data.rows) |-> i],
              LAMBDA i : time_data[i].k = "num")

ValidRows(data, time_data, col) ==
    SelectSeq([i \in 1..Len(data.rows) |-> i],
              LAMBDA i : data.rows[i][col].k = "num" /\ time_data[i].k = "num")

\* the valid rows whose time lies in [lo, hi]
WindowRows(data, time_data, col, lo, hi) ==
    SelectSeq(ValidRows(data, time_data, col),
              LAMBDA i : time_data[i].v >= lo /\ time_data[i].v <= hi)

TimesOf(time_data, rows) == [j \in 1..Len(rows) |-> time_data[rows[j]].v]
ValuesOf(data, col, rows) == [j \in 1..Len(rows) |-> data.rows[rows[j]][col].v]

RECURSIVE GcdSeq(_)
GcdSeq(s) == IF s = <<>> THEN 0 ELSE Gcd(Abs(Head(s)), GcdSeq(Tail(s)))

\* faulty variant: the sums of products are taken without the means, a
\* line through the origin
Linregress_ThroughOrigin(xs, ys) ==
    LET n   == Len(xs)
        g   == GcdSeq(xs)
        ux  == [i \in 1..n |-> IF g = 0 THEN 0 ELSE xs[i] \div g]
        sxx == SumSq(ux)
        syy == SumSq(ys)
        sxy == SumSeq([i \in 1..n |-> ux[i] * ys[i]])
    IN  IF sxx = 0 THEN [k |-> "invalid"]
        ELSE [k |-> "fit",
              slope |-> FracMul(Frac(sxy, sxx * g), FracInt(TicksPerHour)),
              r_squared |-> IF syy = 0 THEN FracInt(0)
                            ELSE FracMul(Frac(sxy, sxx), Frac(sxy, syy))]

\* scipy.stats.linregress(x, y) on at least three points:
\* slope = cov(x, y) / var(x), r = cov(x, y) / sqrt(var(x) * var(y)).  The
\* sums are taken about the first x and in units of the largest common
\* step g of the x, which changes neither the slope nor r.  With all x
\* identical the fit is invalid (a nan slope, or a ValueError, by library
\* version); a constant y gives r = 0.
Linregress(xs, ys) ==
    LET n   == Len(xs)
        cx  == [i \in 1..n |-> xs[i] - xs[1]]
        g   == GcdSeq(cx)
        ux  == [i \in 1..n |-> IF g = 0 THEN 0 ELSE cx[i] \div g]
        sx  == SumSeq(ux)
        sy  == SumSeq(ys)
        sxx == n * SumSq(ux) - sx * sx
        syy == n * SumSq(ys) - sy * sy
        sxy == n * SumSeq([i \in 1..n |-> ux[i] * ys[i]]) - sx * sy
    IN  IF sxx = 0 THEN [k |-> "invalid"]
        ELSE [k |-> "fit",
              slope |-> FracMul(Frac(sxy, sxx * g), FracInt(TicksPerHour)),
              r_squared |-> IF syy = 0 THEN FracInt(0)
                            ELSE FracMul(Frac(sxy, sxx), Frac(sxy, syy))]

\* one regression and the check of its result: a fit is kept only if it is
\* finite (bounded: and |slope| < 1000), else the evaluation time is
\* passed over
FitOf(xs, ys, bounded) ==
    LET fit == Linregress(xs, ys)
    IN  IF fit.k = "fit"
           /\ (bounded => Abs(fit.slope.n) < SlopeLimit * fit.slope.d)
        THEN [k |-> "fit", slope |-> fit.slope, r_squared |-> fit.r_squared,
              n_points |-> Len(xs)]
        ELSE [k |-> "skip"]

Skip == [k |-> "skip"]

\* the evaluation times that were not passed over, in order
Kept(outcome) ==
    SelectSeq([i \in 1..Len(outcome) |-> i], LAMBDA i : outcome[i].k # "skip")

\* faulty variant: the evaluation time is appended before the fit is checked
Gather_TimeFirst(calc_times, outcome) ==
    LET kept == Kept(outcome)
    IN  [times |-> calc_times,
         slopes |-> [j \in 1..Len(kept) |-> outcome[kept[j]].slope],
         r_squared |-> [j \in 1..Len(kept) |-> outcome[kept[j]].r_squared],
         n_points |-> [j \in 1..Len(kept) |-> outcome[kept[j]].n_points]]

\* the four lists of a regression method after its loop over the
\* evaluation times: they grow together, by one entry per kept fit
Gather(calc_times, outcome) ==
    LET kept == Kept(outcome)
    IN  [times |-> [j \in 1..Len(kept) |-> calc_times[kept[j]]],
         slopes |-> [j \in 1..Len(kept) |-> outcome[kept[j]].slope],
         r_squared |-> [j \in 1..Len(kept) |-> outcome[kept[j]].r_squared],
         n_points |-> [j \in 1..Len(kept) |-> outcome[kept[j]].n_points]]

\* the loop over selected_columns of each method: a column the table lacks
\* is passed over, and a column is stored only if it produced a record
RECURSIVE CollectColumns(_, _, _, _, _)
CollectColumns(selected_columns, data, recordOf, i, results) ==
    IF i > Len(selected_columns) THEN results
    ELSE LET col == selected_columns[i]
         IN  CollectColumns(selected_columns, data, recordOf, i + 1,
                 IF col \notin data.cols \/ recordOf[col] = None THEN results
                 ELSE Put(results, col, recordOf[col]))

SelectedInTable(selected_columns, data) ==
    {selected_columns[i] : i \in 1..Len(selected_columns)} \cap data.cols

(* _calculate_slopes_moving_regression                                     *)

MovingLoop(data, time_data, col, calc_times, half_window) ==
    Gather(calc_times,
        [i \in 1..Len(calc_times) |->
            LET calc_time == calc_times[i]
                window == WindowRows(data, time_data, col,
                                     calc_time - half_window,
                                     calc_time + half_window)
            IN  IF Len(window) < 3 THEN Skip
                ELSE FitOf(TimesOf(time_data, window),
                           ValuesOf(data, col, window), FALSE)])

MovingColumn(data, time_data, col, calc_times, interval_minutes, window_minutes) ==
    IF Len(ValidRows(data, time_data, col)) < 3 THEN None
    ELSE LET fits == MovingLoop(data, time_data, col, calc_times,
                                window_minutes.v \div 2)
         IN  IF fits.slopes = <<>> THEN None
             ELSE [times |-> fits.times, slopes |-> fits.slopes,
                   r_squared |-> fits.r_squared, n_points |-> fits.n_points,
                   original_column |-> col,
                   interval_minutes |-> interval_minutes,
                   window_minutes |-> window_minutes,
                   units |-> "ppm/hour",
                   calculation_method |-> "moving_regression"]

\* an optional argument is None or MNum(v); window_minutes is even in every
\* call of the model, so half_window is a whole number of ticks
calculate_slopes_moving_regression(data, selected_columns, time_column, interval_minutes, window_minutes) ==
    IF interval_minutes = None \/ window_minutes = None
    THEN Raised("TypeError")
    ELSE LET time_data == TimeData(data, time_column)
             min_time == MinTime(time_data)
             max_time == MaxTime(time_data)
             half_window == window_minutes.v \div 2
             start_time == min_time.v + half_window
             end_time == max_time.v - half_window
             calc_times == Arange(start_time, end_time + ArangeEps,
                                  interval_minutes.v)
         IN  IF min_time = MNaN \/ max_time = MNaN THEN Returned(EmptyDict)
             ELSE IF start_time >= end_time THEN Returned(EmptyDict)
             ELSE Returned(CollectColumns(selected_columns, data,
                      [col \in SelectedInTable(selected_columns, data) |->
                          MovingColumn(data, time_data, col, calc_times,
                                       interval_minutes, window_minutes)],
                      1, EmptyDict))

(* _calculate_slopes_interval_regression                                   *)

\* min_required_points = max(10, int(len(calc_times) * 0.05))
\* faulty variant: the three samples a regression needs are taken as enough
IntervalMinRequired_Three(calc_times) == Max2(3, 0 * Len(calc_times))

IntervalMinRequired(calc_times) == Max2(10, (Len(calc_times) * 5) \div 100)

\* faulty variant: the fallback window keeps the total width and ends at
\* the evaluation time, so it reaches back beyond the two-sided window
IntervalRegressionLoop_ShiftedFallback(data, time_data, col, calc_times, left, right) ==
    Gather(calc_times,
        [i \in 1..Len(calc_times) |->
            LET calc_time == calc_times[i]
                both == WindowRows(data, time_data, col,
                                   calc_time - left, calc_time + right)
                left_only == WindowRows(data, time_data, col,
                                        calc_time - left - right, calc_time)
                min_required_points == IntervalMinRequired(calc_times)
                window == IF Len(both) >= min_required_points THEN both
                          ELSE left_only
            IN  IF Len(window) < min_required_points THEN Skip
                ELSE FitOf(TimesOf(time_data, window),
                           ValuesOf(data, col, window), TRUE)])

IntervalRegressionLoop(data, time_data, col, calc_times, left, right) ==
    Gather(calc_times,
        [i \in 1..Len(calc_times) |->
            LET calc_time == calc_times[i]
                both == WindowRows(data, time_data, col,
                                   calc_time - left, calc_time + right)
                left_only == WindowRows(data, time_data, col,
                                        calc_time - left, calc_time)
                min_required_points == IntervalMinRequired(calc_times)
                window == IF Len(both) >= min_required_points THEN both
                          ELSE left_only
            IN  IF Len(window) < min_required_points THEN Skip
                ELSE FitOf(TimesOf(time_data, window),
                           ValuesOf(data, col, window), TRUE)])

\* faulty variant: the record is stored whether or not a slope was emitted
IntervalRegressionColumn_KeepsEmpty(data, time_data, col, calc_times, calculation_interval_seconds, left, right) ==
    IF Len(ValidRows(data, time_data, col)) < 3 THEN None
    ELSE LET fits == IntervalRegressionLoop(data, time_data, col, calc_times,
                                            left, right)
         IN  [times |-> fits.times, slopes |-> fits.slopes,
              r_squared |-> fits.r_squared, n_points |-> fits.n_points,
              original_column |-> col,
              calculation_interval_seconds |-> calculation_interval_seconds,
              left_window_minutes |-> left,
              right_window_minutes |-> right,
              total_window_minutes |-> left + right,
              units |-> "ppm/hour",
              calculation_method |-> "interval_regression"]

IntervalRegressionColumn(data, time_data, col, calc_times, calculation_interval_seconds, left, right) ==
    IF Len(ValidRows(data, time_data, col)) < 3 THEN None
    ELSE LET fits == IntervalRegressionLoop(data, time_data, col, calc_times,
                                            left, right)
         IN  IF fits.slopes = <<>> THEN None
             ELSE [times |-> fits.times, slopes |-> fits.slopes,
                   r_squared |-> fits.r_squared, n_points |-> fits.n_points,
                   original_column |-> col,
                   calculation_interval_seconds |-> calculation_interval_seconds,
                   left_window_minutes |-> left,
                   right_window_minutes |-> right,
                   total_window_minutes |-> left + right,
                   units |-> "ppm/hour",
                   calculation_method |-> "interval_regression"]

calculate_slopes_interval_regression(data, selected_columns, time_column, calculation_interval_seconds, left_window_minutes, right_window_minutes) ==
    IF Len(data.rows) = 0 \/ selected_columns = <<>> THEN Returned(EmptyDict)
    ELSE LET left == IF left_window_minutes = None THEN DefaultSideMinutes
                     ELSE left_window_minutes.v
             right == IF right_window_minutes = None THEN DefaultSideMinutes
                      ELSE right_window_minutes.v
             time_data == TimeData(data, time_column)
             min_time == MinTime(time_data)
             max_time == MaxTime(time_data)
             calc_times == Arange(min_time.v, max_time.v + ArangeEps,
                                  calculation_interval_seconds)
         IN  IF min_time = MNaN \/ max_time = MNaN THEN Returned(EmptyDict)
             ELSE Returned(CollectColumns(selected_columns, data,
                      [col \in SelectedInTable(selected_columns, data) |->
                          IntervalRegressionColumn(data, time_data, col,
                              calc_times, calculation_interval_seconds,
                              left, right)],
                      1, EmptyDict))

(* _calculate_slopes_continuous_regression                                 *)

\* min_required_points = max(5, int(total_points * 0.01))
\* faulty variant: the three samples a regression needs are taken as enough
ContinuousMinRequired_Three(total_points) == Max2(3, total_points \div 100)

ContinuousMinRequired(total_points) == Max2(5, total_points \div 100)

ContinuousLoop(data, time_data, col, col_time, left, right) ==
    Gather(col_time,
        [i \in 1..Len(col_time) |->
            LET calc_time == col_time[i]
                window == WindowRows(data, time_data, col,
                                     calc_time - left, calc_time + right)
            IN  IF Len(window) < ContinuousMinRequired(Len(col_time)) THEN Skip
                ELSE FitOf(TimesOf(time_data, window),
                           ValuesOf(data, col, window), TRUE)])

ContinuousColumn(data, time_data, col, left, right) ==
    LET valid == ValidRows(data, time_data, col)
    IN  IF Len(valid) < 3 THEN None
        ELSE LET fits == ContinuousLoop(data, time_data, col,
                                        TimesOf(time_data, valid),
                                        left, right)
             IN  IF fits.slopes = <<>> THEN None
                 ELSE [times |-> fits.times, slopes |-> fits.slopes,
                       r_squared |-> fits.r_squared,
                       n_points |-> fits.n_points,
                       original_column |-> col,
                       left_window_minutes |-> left,
                       right_window_minutes |-> right,
                       total_window_minutes |-> left + right,
                       units |-> "ppm/hour",
                       calculation_method |-> "continuous_regression"]

calculate_slopes_continuous_regression(data, selected_columns, time_column, left_window_minutes, right_window_minutes) ==
    IF left_window_minutes = None \/ right_window_minutes = None
    THEN Raised("TypeError")
    ELSE LET time_data == TimeData(data, time_column)
         IN  IF MinTime(time_data) = MNaN \/ MaxTime(time_data) = MNaN
             THEN Returned(EmptyDict)
             ELSE Returned(CollectColumns(selected_columns, data,
                      [col \in SelectedInTable(selected_columns, data) |->
                          ContinuousColumn(data, time_data, col,
                              left_window_minutes.v, right_window_minutes.v)],
                      1, EmptyDict))

(* _calculate_slopes_interval_based                                        *)

\* faulty variant: kind='previous', the value of the sample before t
Interp1d_Previous(xs, ys, t) ==
    LET n == Len(xs)
        seg == IF t <= xs[1] THEN 1
               ELSE IF t >= xs[n] THEN n
               ELSE CHOOSE i \in 1..(n - 1) : xs[i] <= t /\ t < xs[i + 1]
    IN  [k |-> "num", v |-> FracInt(ys[seg])]

\* interp1d(col_time, col_data, kind='linear', fill_value='extrapolate')
\* at t, for ascending col_time: the segment holding t, the first or the
\* last segment outside the samples; nan on a segment of width zero
Interp1d(xs, ys, t) ==
    LET n == Len(xs)
        seg == IF t <= xs[1] THEN 1
               ELSE IF t >= xs[n] THEN n - 1
               ELSE CHOOSE i \in 1..(n - 1) : xs[i] <= t /\ t < xs[i + 1]
        dx == xs[seg + 1] - xs[seg]
    IN  IF dx = 0 THEN [k |-> "nan"]
        ELSE [k |-> "num",
              v |-> Frac(ys[seg] * dx + (ys[seg + 1] - ys[seg]) * (t - xs[seg]),
                         dx)]

\* faulty variant: the slope is labelled at the right edge of its interval
IntervalBasedLoop_LabelRight(xs, ys, calc_times, min_time, max_time) ==
    LET outcome ==
            [i \in 1..Len(calc_times) |->
                IF i >= Len(calc_times) THEN Skip
                ELSE LET calc_time == calc_times[i]
                         point1_time == Max2(calc_time, min_time)
                         point2_time == Min2(calc_times[i + 1], max_time)
                         value1 == Interp1d(xs, ys, point1_time)
                         value2 == Interp1d(xs, ys, point2_time)
                         time_diff == point2_time - point1_time
                         slope == FracMul(FracDivInt(FracSub(value2.v, value1.v),
                                                     time_diff),
                                          FracInt(TicksPerHour))
                     IN  IF point2_time <= point1_time THEN Skip
                         ELSE IF value1.k = "nan" \/ value2.k = "nan" THEN Skip
                         ELSE [k |-> "pair", calc_time |-> calc_time,
                               point1_time |-> point1_time,
                               point2_time |-> point2_time,
                               value1 |-> value1.v, value2 |-> value2.v,
                               slope |-> slope]]
        kept == Kept(outcome)
    IN  [times |-> [j \in 1..Len(kept) |-> calc_times[kept[j] + 1]],
         slopes |-> [j \in 1..Len(kept) |-> outcome[kept[j]].slope],
         used_points |-> [j \in 1..Len(kept) |->
                             [f \in {"calc_time", "point1_time", "point2_time",
                                     "value1", "value2", "slope"} |->
                                 outcome[kept[j]][f]]]]

\* the loop over calc_times: the last point starts no interval, an
\* interval that is empty after clamping to the data range is passed over
IntervalBasedLoop(xs, ys, calc_times, min_time, max_time) ==
    LET outcome ==
            [i \in 1..Len(calc_times) |->
                IF i >= Len(calc_times) THEN Skip
                ELSE LET calc_time == calc_times[i]
                         point1_time == Max2(calc_time, min_time)
                         point2_time == Min2(calc_times[i + 1], max_time)
                         value1 == Interp1d(xs, ys, point1_time)
                         value2 == Interp1d(xs, ys, point2_time)
                         time_diff == point2_time - point1_time
                         slope == FracMul(FracDivInt(FracSub(value2.v, value1.v),
                                                     time_diff),
                                          FracInt(TicksPerHour))
                     IN  IF point2_time <= point1_time THEN Skip
                         ELSE IF value1.k = "nan" \/ value2.k = "nan" THEN Skip
                         ELSE [k |-> "pair", calc_time |-> calc_time,
                               point1_time |-> point1_time,
                               point2_time |-> point2_time,
                               value1 |-> value1.v, value2 |-> value2.v,
                               slope |-> slope]]
        kept == Kept(outcome)
    IN  [times |-> [j \in 1..Len(kept) |-> calc_times[kept[j]]],
         slopes |-> [j \in 1..Len(kept) |-> outcome[kept[j]].slope],
         used_points |-> [j \in 1..Len(kept) |->
                             [f \in {"calc_time", "point1_time", "point2_time",
                                     "value1", "value2", "slope"} |->
                                 outcome[kept[j]][f]]]]

\* faulty variant: the two-point method asks for three samples as well
IntervalBasedColumn_NeedsThree(data, time_data, col, calc_times, min_time, max_time, interval_minutes) ==
    LET valid == ValidRows(data, time_data, col)
    IN  IF Len(valid) < 3 THEN None
        ELSE LET pairs == IntervalBasedLoop(TimesOf(time_data, valid),
                                            ValuesOf(data, col, valid),
                                            calc_times, min_time, max_time)
             IN  IF pairs.slopes = <<>> THEN None
                 ELSE [times |-> pairs.times, slopes |-> pairs.slopes,
                       original_column |-> col,
                       interval_minutes |-> interval_minutes,
                       units |-> "ppm/hour",
                       calculation_method |-> "interval_based",
                       used_points |-> pairs.used_points]

IntervalBasedColumn(data, time_data, col, calc_times, min_time, max_time, interval_minutes) ==
    LET valid == ValidRows(data, time_data, col)
    IN  IF Len(valid) < 2 THEN None
        ELSE LET pairs == IntervalBasedLoop(TimesOf(time_data, valid),
                                            ValuesOf(data, col, valid),
                                            calc_times, min_time, max_time)
             IN  IF pairs.slopes = <<>> THEN None
                 ELSE [times |-> pairs.times, slopes |-> pairs.slopes,
                       original_column |-> col,
                       interval_minutes |-> interval_minutes,
                       units |-> "ppm/hour",
                       calculation_method |-> "interval_based",
                       used_points |-> pairs.used_points]

calculate_slopes_interval_based(data, selected_columns, time_column, interval_minutes) ==
    LET time_data == TimeData(data, time_column)
        min_time == MinTime(time_data)
        max_time == MaxTime(time_data)
        calc_times == Arange(min_time.v, max_time.v + ArangeEps,
                             interval_minutes)
    IN  IF min_time = MNaN \/ max_time = MNaN THEN Returned(EmptyDict)
        ELSE Returned(CollectColumns(selected_columns, data,
                 [col \in SelectedInTable(selected_columns, data) |->
                     IntervalBasedColumn(data, time_data, col, calc_times,
                                         min_time.v, max_time.v,
                                         interval_minutes)],
                 1, EmptyDict))

(* _apply_savgol_smoothing                                                 *)

\* the least-squares polynomial of degree polyorder <= 2 through the
\* window ys (odd length w), evaluated j places from its centre; the
\* polynomial is built from 1, k and w*k*k - sum(k*k), orthogonal on the
\* window positions k = -m..m
SavgolFit(ys, w, polyorder, j) ==
    LET m   == (w - 1) \div 2
        K   == [i \in 1..w |-> i - 1 - m]
        s2  == SumSq(K)
        Q   == [i \in 1..w |-> w * K[i] * K[i] - s2]
        sq  == SumSq(Q)
        qj  == w * j * j - s2
        t0  == FracDivInt(FracSum(ys), w)
        t1  == IF polyorder >= 1
               THEN FracMul(FracSum([i \in 1..w |-> FracMul(FracInt(K[i]), ys[i])]),
                            Frac(j, s2))
               ELSE FracInt(0)
        t2  == IF polyorder >= 2
               THEN FracMul(FracSum([i \in 1..w |-> FracMul(FracInt(Q[i]), ys[i])]),
                            Frac(qj, sq))
               ELSE FracInt(0)
    IN  FracAdd(t0, FracAdd(t1, t2))

\* scipy.signal.savgol_filter(x, window_length, polyorder), mode 'interp',
\* for len(x) >= window_length > polyorder and polyorder <= 2: a centred fit
\* inside, the fit of the first (last) window at the first (last)
\* window_length // 2 places
SavgolFilter(x, window_length, polyorder) ==
    LET n == Len(x)
        m == (window_length - 1) \div 2
    IN  [i \in 1..n |->
            IF i <= m
            THEN SavgolFit(SubSeq(x, 1, window_length), window_length,
                           polyorder, i - 1 - m)
            ELSE IF i > n - m
            THEN SavgolFit(SubSeq(x, n - window_length + 1, n), window_length,
                           polyorder, i - (n - window_length) - 1 - m)
            ELSE SavgolFit(SubSeq(x, i - m, i + m), window_length,
                           polyorder, 0)]

\* savgol_filter raises ValueError unless polyorder < window_length
SavgolRaises(window_length, polyorder) == polyorder >= window_length

\* noise_reduction_percent is 0 when the slopes have no spread and
\* (1 - smoothed_std / original_std) * 100 otherwise, carried unevaluated
NoiseReduction(slopes, smoothed_slopes) ==
    IF \A i \in 1..Len(slopes) : slopes[i] = slopes[1] THEN [k |-> "zero"]
    ELSE [k |-> "percent", of |-> smoothed_slopes, against |-> slopes]

\* faulty variant: a short series is returned with a smoothed marker
SmoothColumn_MarksShort(data, window_length, polyorder) ==
    IF Len(data.slopes) < window_length
    THEN [x \in DOMAIN data \cup {"smoothed"} |->
             IF x = "smoothed" THEN FALSE ELSE data[x]]
    ELSE data

\* one column of the smoothing pass: data.copy() when the slopes are fewer
\* than the window or the filter raises, else the copy with the slopes
\* replaced and the smoothing fields added
SmoothColumn(data, window_length, polyorder) ==
    LET slopes == data.slopes
        smoothed_slopes == SavgolFilter(slopes, window_length, polyorder)
        added == {"original_slopes", "smoothed", "smooth_method",
                  "smooth_window", "smooth_order", "noise_reduction_percent"}
    IN  IF Len(slopes) < window_length THEN data
        ELSE IF SavgolRaises(window_length, polyorder) THEN data
        ELSE [x \in DOMAIN data \cup added |->
                 CASE x = "slopes" -> smoothed_slopes
                   [] x = "original_slopes" -> slopes
                   [] x = "smoothed" -> TRUE
                   [] x = "smooth_method" -> "savgol"
                   [] x = "smooth_window" -> window_length
                   [] x = "smooth_order" -> polyorder
                   [] x = "noise_reduction_percent" ->
                          NoiseReduction(slopes, smoothed_slopes)
                   [] OTHER -> data[x]]

\* faulty variant: no copy is taken, the fields are written into the record
\* that was passed in
ColumnAfterSmoothing_NoCopy(data, window_length, polyorder) ==
    SmoothColumn(data, window_length, polyorder)

\* the record passed in, as the pass leaves it: every assignment goes to
\* smoothed_data, a copy, and savgol_filter returns a new array
ColumnAfterSmoothing(data, window_length, polyorder) == data

\* the map passed in, as the pass leaves it: nothing is added or removed
ArgumentAfterSmoothing(slope_results, window_length, polyorder) ==
    LET odd == IF window_length % 2 = 0 THEN window_length + 1
               ELSE window_length
    IN  [col \in DOMAIN slope_results |->
            ColumnAfterSmoothing(slope_results[col], odd, polyorder)]

apply_savgol_smoothing(slope_results, window_length, polyorder) ==
    LET odd == IF window_length % 2 = 0 THEN window_length + 1
               ELSE window_length
    IN  [col \in DOMAIN slope_results |->
            SmoothColumn(slope_results[col], odd, polyorder)]

(* calculate_slopes                                                        *)

calculate_slopes(data, selected_columns, time_column, interval_minutes, method, window_minutes, left_window_minutes, right_window_minutes, calculation_interval_seconds, smoothing, smooth_window, smooth_order) ==
    IF Len(data.rows) = 0 \/ selected_columns = <<>> THEN Returned(EmptyDict)
    ELSE LET results ==
                 CASE method = "interval_regression" ->
                          calculate_slopes_interval_regression(data,
                              selected_columns, time_column,
                              calculation_interval_seconds,
                              left_window_minutes, right_window_minutes)
                   [] method = "continuous_regression" ->
                          calculate_slopes_continuous_regression(data,
                              selected_columns, time_column,
                              left_window_minutes, right_window_minutes)
                   [] method = "moving_regression" ->
                          calculate_slopes_moving_regression(data,
                              selected_columns, time_column, interval_minutes,
                              IF window_minutes # None THEN window_minutes
                              ELSE IF interval_minutes # None
                                      /\ interval_minutes.v # 0
                              THEN MNum(interval_minutes.v * 2)
                              ELSE MNum(DefaultWindowMinutes))
                   [] method = "interval_based" ->
                          calculate_slopes_interval_based(data,
                              selected_columns, time_column,
                              IF interval_minutes = None
                              THEN DefaultIntervalMinutes
                              ELSE interval_minutes.v)
                   [] OTHER -> Raised("ValueError")
         IN  IF results.k = "return" /\ smoothing
                /\ DOMAIN results.value # {}
             THEN Returned(apply_savgol_smoothing(results.value,
                                                  smooth_window, smooth_order))
             ELSE results

-----------------------------------------------------------------------------
(* Inputs of calculate_slopes                                              *)

MaxSlopeRows == 12

\* tables of n rows, dt ticks apart (dt = 0: one instant), in time order.
\* c1 is constant, rises by one per row, or alternates, and may miss its
\* first value; the time of the second row may be missing; c2 has exactly
\* two values.  The time axis is relative_time, a timestamp column, or,
\* for the tables of up to three rows, absent (the rows are then an hour
\* apart).
SlopeRowCounts == {0, 2, 3, 5, MaxSlopeRows}
DtSet     == {0, 1, 10}
ShapeSet  == {"flat", "lin", "zig"}
HoleSet   == {"none", "value1", "time2"}
SlopeColSets == {{"relative_time", "c1", "c2"}, {"timestamp", "c1", "c2"}}
NoAxisCols   == {"c1", "c2"}
NoAxisRowCounts == {2, 3}

ShapeValue(shape, i) ==
    CASE shape = "flat" -> 7
      [] shape = "lin" -> i - 1
      [] shape = "zig" -> i % 2

SlopeRow(i, dt, shape, hole, cols) ==
    LET full == [relative_time |-> IF hole = "time2" /\ i = 2 THEN MNaN
                                   ELSE MNum((i - 1) * dt),
                 timestamp |-> IF hole = "time2" /\ i = 2 THEN MNaN
                               ELSE MNum(100 + (i - 1) * dt),
                 c1 |-> IF hole = "value1" /\ i = 1 THEN MNaN
                        ELSE MNum(ShapeValue(shape, i)),
                 c2 |-> IF i <= 2 THEN MNum(i) ELSE MNaN]
    IN  [c \in cols |-> full[c]]

SlopeTables ==
    { [cols |-> cols,
       rows |-> [i \in 1..n |-> SlopeRow(i, dt, shape, hole, cols)]] :
        n \in SlopeRowCounts, dt \in DtSet, shape \in ShapeSet,
        hole \in HoleSet, cols \in SlopeColSets }
    \cup
    { [cols |-> NoAxisCols,
       rows |-> [i \in 1..n |-> SlopeRow(i, 1, shape, hole, NoAxisCols)]] :
        n \in NoAxisRowCounts, shape \in ShapeSet, hole \in HoleSet }

\* the declared defaults of calculate_slopes (30.0 s is 25 ticks)
DefaultArgs ==
    [selected_columns |-> <<"c1", "c2">>, time_column |-> "timestamp",
     interval_minutes |-> None, method |-> "interval_regression",
     window_minutes |-> None, left_window_minutes |-> None,
     right_window_minutes |-> None, calculation_interval_seconds |-> 25,
     smoothing |-> FALSE, smooth_window |-> 15, smooth_order |-> 2]

MethodArgs ==
    { [DefaultArgs EXCEPT !.calculation_interval_seconds = c,
                          !.left_window_minutes = w[1],
                          !.right_window_minutes = w[2]] :
        c \in {25, 6},
        w \in {<<None, None>>, <<MNum(20), MNum(0)>>, <<MNum(50), MNum(50)>>} }
    \cup
    { [DefaultArgs EXCEPT !.method = "continuous_regression",
                          !.left_window_minutes = w[1],
                          !.right_window_minutes = w[2]] :
        w \in {<<None, None>>, <<MNum(750), MNum(750)>>, <<MNum(2), MNum(2)>>,
               <<MNum(20), None>>} }
    \cup
    { [DefaultArgs EXCEPT !.method = "moving_regression",
                          !.interval_minutes = i, !.window_minutes = w] :
        i \in {None, MNum(2), MNum(50)}, w \in {None, MNum(4), MNum(20)} }
    \cup
    { [DefaultArgs EXCEPT !.method = "interval_based",
                          !.interval_minutes = i] :
        i \in {None, MNum(2), MNum(3), MNum(25)} }
    \cup
    { [DefaultArgs EXCEPT !.method = "savgol"] }

SmoothChoices == {<<FALSE, 15, 2>>, <<TRUE, 15, 2>>, <<TRUE, 3, 1>>,
                  <<TRUE, 2, 2>>, <<TRUE, 3, 3>>, <<TRUE, 5, 0>>}

SlopeArgs ==
    { [a EXCEPT !.smoothing = s[1], !.smooth_window = s[2],
                !.smooth_order = s[3]] : a \in MethodArgs, s \in SmoothChoices }
    \cup
    { [a EXCEPT !.selected_columns = sel] :
        a \in {x \in MethodArgs : x.interval_minutes # None
                                   \/ x.left_window_minutes # None},
        sel \in {<<>>, <<"c1">>, <<"zz", "c1">>} }

\* the calls made on a table: all of SlopeArgs, but on a table without a
\* time axis only those that step by 30 s or more
CoarseArgs ==
    { a \in SlopeArgs :
        /\ a.calculation_interval_seconds >= 25
        /\ a.interval_minutes # None => a.interval_minutes.v >= 25 }
SlopeArgsFor(data) ==
    IF data.cols = NoAxisCols THEN CoarseArgs ELSE SlopeArgs

CalculateSlopesCall(data, a) ==
    /\ last' = [op |-> "calculate_slopes", args |-> a,
                ret |-> calculate_slopes(data, a.selected_columns,
                            a.time_column, a.interval_minutes, a.method,
                            a.window_minutes, a.left_window_minutes,
                            a.right_window_minutes,
                            a.calculation_interval_seconds, a.smoothing,
                            a.smooth_window, a.smooth_order)]
    /\ UNCHANGED <<f1, f2, p_ref, hist_set, inp, slope_data>>

CalculateSlopes(data, a) == CalculateSlopesCall(data, a) /\ UNCHANGED log

(* SpecSlope: one calculate_slopes call on a table drawn initially         *)

InitSlope == Construct /\ SlopeCalculatorInit /\ inp \in [data : SlopeTables]

NextSlope ==
    /\ last.op = "init"
    /\ \E a \in SlopeArgsFor(inp.data) : CalculateSlopes(inp.data, a)

SpecSlope == InitSlope /\ [][NextSlope]_vars

-----------------------------------------------------------------------------
(* Properties of SlopeCalculator                                           *)

\* the records of the result map of the latest calculate_slopes call
SlopeRecords ==
    IF last.op = "calculate_slopes" /\ last.ret.k = "return"
    THEN {last.ret.value[col] : col \in DOMAIN last.ret.value}
    ELSE {}

\* C9: slope record length invariant: in every record returned by
\* calculate_slopes, for each of the four methods and with smoothing on or
\* off, times and slopes have the same length, and so have r_squared and
\* n_points when the record has them
C9_SlopeRecordLengths ==
    \A r \in SlopeRecords :
        /\ Len(r.times) = Len(r.slopes)
        /\ "r_squared" \in DOMAIN r => Len(r.r_squared) = Len(r.times)
        /\ "n_points" \in DOMAIN r => Len(r.n_points) = Len(r.times)

\* a call that returned a smoothed regression record of three or more
\* slopes
C9_Witness ==
    \E r \in SlopeRecords :
        /\ "smoothed" \in DOMAIN r
        /\ "r_squared" \in DOMAIN r
        /\ "n_points" \in DOMAIN r
        /\ Len(r.slopes) >= 3

\* the time axis the latest call worked on
CallTimeData == TimeData(inp.data, last.args.time_column)

\* C10: no extrapolated evaluation time: for every method and every table,
\* every time of a returned record lies within [min, max] of the table's
\* relative time axis
C10_TimesWithinObservedRange ==
    \A r \in SlopeRecords :
        \A i \in 1..Len(r.times) :
            /\ MinTime(CallTimeData).v <= r.times[i]
            /\ r.times[i] <= MaxTime(CallTimeData).v

\* what the four methods do keep to: no time before the first sample, none
\* at or beyond the stop value max_time + 0.001 h of np.arange
TimesBelowArangeStop ==
    \A r \in SlopeRecords :
        \A i \in 1..Len(r.times) :
            /\ MinTime(CallTimeData).v <= r.times[i]
            /\ r.times[i] < MaxTime(CallTimeData).v + ArangeEps

\* the two methods that take their times from the samples or clamp them
\* never leave the observed range
SampledMethodsWithinRange ==
    \A r \in SlopeRecords :
        r.calculation_method \in {"continuous_regression", "interval_based"}
        => \A i \in 1..Len(r.times) :
               /\ MinTime(CallTimeData).v <= r.times[i]
               /\ r.times[i] <= MaxTime(CallTimeData).v

\* the latest call returned a result map
Returns == last.op = "calculate_slopes" /\ last.ret.k = "return"

RegressionMethods ==
    {"interval_regression", "continuous_regression", "moving_regression"}

\* the requested columns of the table with exactly two valid samples
TwoSampleColumns ==
    {col \in SelectedInTable(last.args.selected_columns, inp.data) :
        Len(ValidRows(inp.data, CallTimeData, col)) = 2}

\* the cadence points of the two-point method in the latest call
CadencePoints ==
    Arange(MinTime(CallTimeData).v, MaxTime(CallTimeData).v + ArangeEps,
           IF last.args.interval_minutes = None THEN DefaultIntervalMinutes
           ELSE last.args.interval_minutes.v)

AtDeclaredDefaults ==
    /\ last.op = "calculate_slopes"
    /\ last.args.interval_minutes = DefaultArgs.interval_minutes
    /\ last.args.window_minutes = DefaultArgs.window_minutes
    /\ last.args.left_window_minutes = DefaultArgs.left_window_minutes
    /\ last.args.right_window_minutes = DefaultArgs.right_window_minutes
    /\ last.args.calculation_interval_seconds
           = DefaultArgs.calculation_interval_seconds

FourMethods == RegressionMethods \cup {"interval_based"}

\* C12: no fatal condition in the slope engine: for each of the four
\* methods, calculate_slopes on a non-empty table with the interval and
\* window parameters at their declared defaults returns a result map and
\* does not raise
C12_DefaultsDoNotRaise ==
    (AtDeclaredDefaults /\ last.args.method \in FourMethods
        /\ Len(inp.data.rows) > 0)
    => last.ret.k = "return"

\* the two methods that replace a None by a number do return at the
\* declared defaults
GuardedDefaultsReturn ==
    (AtDeclaredDefaults
        /\ last.args.method \in {"interval_regression", "interval_based"})
    => last.ret.k = "return"

-----------------------------------------------------------------------------
(* SpecLinear: one regression call on the series value = 3*time + 7,       *)
(* sampled evenly over [0, LinearHours] hours                              *)

LinearHours == 10

\* the sampling periods, 20 and 40 minutes, at which 3*time + 7 is a whole
\* number of ppm
LinearPeriods == {1000, 2000}

LinearTable(period) ==
    [cols |-> {"relative_time", "c1"},
     rows |-> [i \in 1..((LinearHours * TicksPerHour) \div period + 1) |->
                  [relative_time |-> MNum((i - 1) * period),
                   c1 |-> MNum((3 * (i - 1) * period) \div TicksPerHour + 7)]]]

LinearTables == {LinearTable(period) : period \in LinearPeriods}

\* windows of 80 to 400 minutes, evaluation every 20 to 60 minutes
LinearSideSet  == {MNum(4000), MNum(10000), MNum(20000)}
LinearEverySet == {1000, 1500, 3000}
LinearMethodArgs ==
    { [DefaultArgs EXCEPT !.selected_columns = <<"c1">>,
                          !.calculation_interval_seconds = c,
                          !.left_window_minutes = l,
                          !.right_window_minutes = r] :
        c \in LinearEverySet, l \in LinearSideSet, r \in LinearSideSet }
    \cup
    { [DefaultArgs EXCEPT !.selected_columns = <<"c1">>,
                          !.method = "continuous_regression",
                          !.left_window_minutes = l,
                          !.right_window_minutes = r] :
        l \in LinearSideSet, r \in LinearSideSet }
    \cup
    { [DefaultArgs EXCEPT !.selected_columns = <<"c1">>,
                          !.method = "moving_regression",
                          !.interval_minutes = MNum(c),
                          !.window_minutes = w] :
        c \in LinearEverySet, w \in LinearSideSet }
    \cup
    { [DefaultArgs EXCEPT !.selected_columns = <<"c1">>,
                          !.method = "interval_based",
                          !.interval_minutes = c] :
        c \in {None} \cup {MNum(x) : x \in LinearEverySet} }

LinearArgs ==
    { [a EXCEPT !.smoothing = s[1], !.smooth_window = s[2],
                !.smooth_order = s[3]] :
        a \in LinearMethodArgs,
        s \in {<<FALSE, 15, 2>>, <<TRUE, 3, 1>>, <<TRUE, 5, 2>>} }

InitLinear == Construct /\ SlopeCalculatorInit /\ inp \in [data : LinearTables]

NextLinear ==
    /\ last.op = "init"
    /\ \E a \in LinearArgs : CalculateSlopes(inp.data, a)

SpecLinear == InitLinear /\ [][NextLinear]_vars

\* |f - i| <= 0.05
FracNear(f, i) == Abs(f.n - i * f.d) * 20 <= f.d

\* C13: slope of exact linear data: on value = 3*time + 7 sampled evenly
\* over [0, 10] hours, every slope emitted by interval_regression,
\* continuous_regression and moving_regression (at an interior evaluation
\* point or at the ends) is 3 within 0.05, with r_squared equal to 1
C13_LinearSlope ==
    \A r \in SlopeRecords :
        r.calculation_method \in RegressionMethods
        => \A i \in 1..Len(r.slopes) :
               /\ FracNear(r.slopes[i], 3)
               /\ r.r_squared[i] = FracInt(1)

\* a regression record with a slope at an interior evaluation point
C13_Witness ==
    \E r \in SlopeRecords :
        \E i \in 1..Len(r.times) :
            /\ r.times[i] > MinTime(CallTimeData).v
            /\ r.times[i] < MaxTime(CallTimeData).v
            /\ r.calculation_method \in RegressionMethods

\* the valid samples of col lie on a line of slope a ppm/hour
OnLine(data, time_data, col, a) ==
    LET valid == ValidRows(data, time_data, col)
    IN  \A i \in 1..Len(valid), j \in 1..Len(valid) :
            (data.rows[valid[j]][col].v - data.rows[valid[i]][col].v)
                * TicksPerHour
            = a * (time_data[valid[j]].v - time_data[valid[i]].v)

\* the slopes a of the linear columns of the tables, in ppm/hour
LineSlopes == {0, 1, 3, 300, 3 * 1000}

\* C14: two-point exactness: for interval_based on samples of a linear
\* function value = a*time + b, every emitted slope equals a exactly, for
\* every interval_minutes that yields at least two cadence points
C14_TwoPointExact ==
    (Returns /\ last.args.method = "interval_based")
    => \A col \in DOMAIN last.ret.value, a \in LineSlopes :
           OnLine(inp.data, CallTimeData, col, a)
           => \A i \in 1..Len(last.ret.value[col].slopes) :
                  last.ret.value[col].slopes[i] = FracInt(a)

\* an interval_based call that returned two or more slopes for a column
\* on a rising line
C14_Witness ==
    /\ Returns
    /\ last.args.method = "interval_based"
    /\ \E col \in DOMAIN last.ret.value, a \in LineSlopes \ {0} :
           /\ OnLine(inp.data, CallTimeData, col, a)
           /\ Len(last.ret.value[col].slopes) >= 2

\* what the latest call returns with smoothing switched off: the input of
\* its smoothing pass
Unsmoothed ==
    calculate_slopes(inp.data, last.args.selected_columns,
                     last.args.time_column, last.args.interval_minutes,
                     last.args.method, last.args.window_minutes,
                     last.args.left_window_minutes,
                     last.args.right_window_minutes,
                     last.args.calculation_interval_seconds, FALSE,
                     last.args.smooth_window, last.args.smooth_order)

\* the latest call returned from its smoothing pass
Smoothing == Returns /\ last.args.smoothing /\ DOMAIN last.ret.value # {}

\* C15: smoothing no-op on short series: for every column whose slope array
\* is shorter than the requested window_length, the smoothing pass returns
\* a record with the same slopes and without a smoothed marker or an
\* original_slopes field
C15_ShortSeriesUnchanged ==
    Smoothing =>
        LET before == Unsmoothed.value
            after == last.ret.value
        IN  \A col \in DOMAIN before :
                Len(before[col].slopes) < last.args.smooth_window
                => /\ col \in DOMAIN after
                   /\ after[col].slopes = before[col].slopes
                   /\ "smoothed" \notin DOMAIN after[col]
                   /\ "original_slopes" \notin DOMAIN after[col]
                   /\ after[col] = before[col]

\* a smoothing pass over a column of two or more slopes, fewer than the
\* requested window
C15_Witness ==
    /\ Smoothing
    /\ \E col \in DOMAIN last.ret.value :
           /\ Len(last.ret.value[col].slopes) >= 2
           /\ Len(last.ret.value[col].slopes) < last.args.smooth_window
           /\ "smoothed" \notin DOMAIN last.ret.value[col]

\* the window of the latest smoothing pass: the requested one, made odd
OddWindow ==
    IF last.args.smooth_window % 2 = 0 THEN last.args.smooth_window + 1
    ELSE last.args.smooth_window

\* C16: smoothing order auto-correction: when the smoothing pass is
\* requested with a polynomial order that is not strictly below the window
\* length, the order is corrected and the filter still applied: every
\* column with at least window_length slopes comes back smoothed, with a
\* recorded order strictly below the recorded odd window
C16_OrderAutoCorrected ==
    (Smoothing /\ last.args.smooth_order >= OddWindow) =>
        LET before == Unsmoothed.value
            after == last.ret.value
        IN  \A col \in DOMAIN before :
                Len(before[col].slopes) >= OddWindow
                => /\ "smoothed" \in DOMAIN after[col]
                   /\ after[col].smooth_order < after[col].smooth_window
                   /\ after[col].smooth_window % 2 = 1

\* what the pass does with an order that is not below the window: the
\* filter raises and every column comes back as it went in
RaisingOrderLeavesUnsmoothed ==
    (Smoothing /\ last.args.smooth_order >= OddWindow) =>
        last.ret.value = Unsmoothed.value

\* with an order below the window, every column with at least
\* window_length slopes comes back smoothed, the window and the order
\* recorded
SmoothedWhenOrderValid ==
    (Smoothing /\ last.args.smooth_order < OddWindow) =>
        LET before == Unsmoothed.value
            after == last.ret.value
        IN  \A col \in DOMAIN before :
                Len(before[col].slopes) >= OddWindow
                => /\ "smoothed" \in DOMAIN after[col]
                   /\ after[col].smooth_order = last.args.smooth_order
                   /\ after[col].smooth_window = OddWindow
                   /\ after[col].original_slopes = before[col].slopes

\* the rows of the latest call's table with both a time and a value of col,
\* the time within [lo, hi], in table order
PresentIn(col, lo, hi) ==
    SelectSeq([i \in 1..Len(inp.data.rows) |-> i],
              LAMBDA i : /\ CallTimeData[i].k = "num"
                         /\ inp.data.rows[i][col].k = "num"
                         /\ CallTimeData[i].v >= lo
                         /\ CallTimeData[i].v <= hi)

\* the rows of the table with a time within [lo, hi] and no value of col
MissingIn(col, lo, hi) ==
    { i \in 1..Len(inp.data.rows) : /\ CallTimeData[i].k = "num"
                                    /\ inp.data.rows[i][col].k # "num"
                                    /\ CallTimeData[i].v >= lo
                                    /\ CallTimeData[i].v <= hi }

\* the windows a regression record of the latest call can have used at the
\* evaluation time t, as <<lo, hi>>
WindowsAt(r, t) ==
    CASE r.calculation_method = "moving_regression" ->
             { <<t - r.window_minutes.v \div 2, t + r.window_minutes.v \div 2>> }
      [] r.calculation_method = "interval_regression" ->
             { <<t - r.left_window_minutes, t + r.right_window_minutes>>,
               <<t - r.left_window_minutes, t>> }
      [] r.calculation_method = "continuous_regression" ->
             { <<t - r.left_window_minutes, t + r.right_window_minutes>> }

\* the regression records of the latest call
RegressionRecords ==
    { r \in SlopeRecords : r.calculation_method \in RegressionMethods }

\* the slopes the regression of record r produced: a smoothed record keeps
\* them as original_slopes
RegressionSlopes(r) ==
    IF "smoothed" \in DOMAIN r THEN r.original_slopes ELSE r.slopes

\* slope j of record r is the fit over exactly the rows of window w that
\* have a time and a value, and n_points counts exactly those rows
FitOverPresent(r, j, w) ==
    LET rows == PresentIn(r.original_column, w[1], w[2])
        fit == Linregress(TimesOf(CallTimeData, rows),
                          ValuesOf(inp.data, r.original_column, rows))
    IN  /\ r.n_points[j] = Len(rows)
        /\ fit.k = "fit"
        /\ fit.slope = RegressionSlopes(r)[j]

\* C17: missing values are excluded, never treated as zero: a row whose
\* time or value is missing takes no part in the regression of a window,
\* and n_points counts only the rows of the window that have both
C17_MissingValuesExcluded ==
    \A r \in RegressionRecords :
        \A j \in 1..Len(r.slopes) :
            \E w \in WindowsAt(r, r.times[j]) : FitOverPresent(r, j, w)

\* a slope was emitted over a window that holds a row without a value
C17_Witness ==
    \E r \in RegressionRecords :
        \E j \in 1..Len(r.slopes) :
            \E w \in WindowsAt(r, r.times[j]) :
                /\ FitOverPresent(r, j, w)
                /\ MissingIn(r.original_column, w[1], w[2]) # {}

\* the interval-regression records of the latest call
IntervalRegressionRecords ==
    { r \in SlopeRecords : r.calculation_method = "interval_regression" }

\* the evaluation timestamps of the latest interval-regression call
EvaluationTimes(r) ==
    Arange(MinTime(CallTimeData).v, MaxTime(CallTimeData).v + ArangeEps,
           r.calculation_interval_seconds)

\* the samples with a time and a value in the two-sided window of t
TwoSided(r, t) ==
    PresentIn(r.original_column, t - r.left_window_minutes,
              t + r.right_window_minutes)

\* the samples with a time and a value in the left-only window of t
LeftOnly(r, t) == PresentIn(r.original_column, t - r.left_window_minutes, t)

\* the regression over rows is one the method accepts: a finite slope of
\* magnitude below 1000
AcceptedFit(r, rows) ==
    LET fit == Linregress(TimesOf(CallTimeData, rows),
                          ValuesOf(inp.data, r.original_column, rows))
    IN  /\ fit.k = "fit"
        /\ Abs(fit.slope.n) < SlopeLimit * fit.slope.d

\* the positions of t among the emitted times of r
EmittedAt(r, t) == { j \in 1..Len(r.times) : r.times[j] = t }

\* C20: interval regression minimum-point rule: with
\* M = max(10, int(0.05 * number of evaluation timestamps)), an evaluation
\* timestamp uses its two-sided window if that holds at least M valid
\* samples, otherwise its left-only window if that holds at least M; if
\* neither does, nothing is emitted for the timestamp and the later
\* timestamps are still processed
C20_MinimumPointRule ==
    \A r \in IntervalRegressionRecords :
        LET calc_times == EvaluationTimes(r)
            M == IF (Len(calc_times) * 5) \div 100 > 10
                 THEN (Len(calc_times) * 5) \div 100 ELSE 10
        IN  /\ \A j \in 1..Len(r.times) :
                   \E i \in 1..Len(calc_times) : calc_times[i] = r.times[j]
            /\ \A i \in 1..Len(calc_times) :
                   LET t == calc_times[i]
                       both == TwoSided(r, t)
                       left_only == LeftOnly(r, t)
                       window == IF Len(both) >= M THEN both ELSE left_only
                   IN  IF Len(window) < M THEN EmittedAt(r, t) = {}
                       ELSE /\ \A j \in EmittedAt(r, t) :
                                   r.n_points[j] = Len(window)
                            /\ AcceptedFit(r, window) => EmittedAt(r, t) # {}

\* an evaluation timestamp with too few samples in either window was
\* passed over and a later one, with enough, was emitted
C20_Witness ==
    \E r \in IntervalRegressionRecords :
        LET calc_times == EvaluationTimes(r)
        IN  \E i, k \in 1..Len(calc_times) :
                /\ i < k
                /\ Len(TwoSided(r, calc_times[i])) < 10
                /\ Len(LeftOnly(r, calc_times[i])) < 10
                /\ EmittedAt(r, calc_times[i]) = {}
                /\ Len(TwoSided(r, calc_times[k])) >= 10
                /\ EmittedAt(r, calc_times[k]) # {}

-----------------------------------------------------------------------------
(* The result map of validate_calibration                                  *)

ValidationFields ==
    {"status", "message", "avg_variance", "max_variance", "num_time_points"}

\* C19: validate_calibration returns, for every input, the
\* insufficient_data and no_overlap outcomes included, a map with all five
\* fields status, message, avg_variance, max_variance and num_time_points
C19_AllFiveFields ==
    last.op = "validate_calibration" => ValidationFields \subseteq DOMAIN last.ret

\* the two early outcomes carry status and message only, the other three
\* outcomes all five fields
EarlyOutcomesCarryTwoFields ==
    last.op = "validate_calibration" =>
        IF last.ret.status \in {"insufficient_data", "no_overlap"}
        THEN DOMAIN last.ret = {"status", "message"}
        ELSE DOMAIN last.ret = ValidationFields

-----------------------------------------------------------------------------
(* SpecRepeat: up to MaxCalls value-returning calls on one CalibrationCore *)
(* and one SlopeCalculator, each recorded in log with the parameters it    *)
(* was made under; set_parameters may come between any two of them         *)

MaxCalls == 4

RepeatParams == {<<F1Default, F2Default, PRefDefault>>, <<0, F2Default, Num(1, 1)>>}
RepeatPressures == {Num(1, -1), Num(1, 1)}
RepeatPairs == {<<"m2", "p2">>}
RepeatPairLists == {<<<<"zz", "p1">>, <<"m1", "p2">>>>}
RepeatFrames ==
    { t \in FewTables : "relative_time" \in t.cols /\ t.rows[1]["p1"] = Num(1, 0) }
RepeatTables ==
    { [cols |-> {"relative_time", "c1", "c2"},
       rows |-> [i \in 1..5 |->
                    SlopeRow(i, 10, "zig", "none", {"relative_time", "c1", "c2"})]] }
RepeatArgs ==
    { [DefaultArgs EXCEPT !.method = "moving_regression",
                          !.interval_minutes = MNum(2),
                          !.window_minutes = MNum(20),
                          !.smoothing = TRUE, !.smooth_window = 3,
                          !.smooth_order = 1] }

\* the call just made, with the parameters it was made under
Logged == log' = Append(log, [params |-> Params, made |-> last'])

LoggedCalibrate(ppm, pressure) ==
    /\ Len(log) < MaxCalls
    /\ CalibrateCall(ppm, pressure)
    /\ Logged

LoggedCalibrateSinglePair(df, moisture_col, pressure_col) ==
    /\ Len(log) < MaxCalls
    /\ CalibrateSinglePairCall(df, moisture_col, pressure_col)
    /\ Logged

LoggedBatchCalibrate(df, pairs) ==
    /\ Len(log) < MaxCalls
    /\ BatchCalibrateCall(df, pairs)
    /\ Logged

LoggedCalculateSlopes(data, a) ==
    /\ Len(log) < MaxCalls
    /\ CalculateSlopesCall(data, a)
    /\ Logged

InitRepeat == Construct /\ SlopeCalculatorInit /\ inp \in [data : RepeatTables]

NextRepeat ==
    \/ \E a \in RepeatParams : set_parameters(a[1], a[2], a[3])
    \/ \E pressure \in RepeatPressures : LoggedCalibrate(41, pressure)
    \/ \E df \in RepeatFrames, pair \in RepeatPairs :
           LoggedCalibrateSinglePair(df, pair[1], pair[2])
    \/ \E df \in RepeatFrames, pairs \in RepeatPairLists :
           LoggedBatchCalibrate(df, pairs)
    \/ \E a \in RepeatArgs : LoggedCalculateSlopes(inp.data, a)

SpecRepeat == InitRepeat /\ [][NextRepeat]_vars

\* the arguments of a recorded call: the record of the call without its
\* return value
InputsOf(entry) == [f \in DOMAIN entry.made \ {"ret"} |-> entry.made[f]]

\* two recorded calls of one operation with identical arguments
SameCall(x, y) ==
    /\ x.made.op = y.made.op
    /\ InputsOf(x) = InputsOf(y)

CalibrateOps == {"calibrate", "calibrate_single_pair", "batch_calibrate"}

-----------------------------------------------------------------------------
(* Rejected fits                                                           *)

\* every regression slope of record r has magnitude below 1000 ppm/hour
SlopesBelowLimit(r) ==
    \A j \in 1..Len(RegressionSlopes(r)) :
        Abs(RegressionSlopes(r)[j].n) < SlopeLimit * RegressionSlopes(r)[j].d

\* C21: rejected fits are never emitted: in each of interval_regression,
\* continuous_regression and moving_regression no emitted slope is
\* non-finite or has a magnitude of 1000 or more (slopes of the model are
\* exact fractions, always finite)
C21_RejectedFitsNeverEmitted ==
    \A r \in RegressionRecords : SlopesBelowLimit(r)

\* the two methods that test abs(slope) < 1000 emit no slope at or above it
BoundedMethodsBelowLimit ==
    \A r \in RegressionRecords :
        r.calculation_method # "moving_regression" => SlopesBelowLimit(r)

\* interval_regression and continuous_regression passed over a rejected fit
\* and emitted a slope for a later timestamp of the column: for
\* continuous_regression every sample time with enough samples in its
\* window and an accepted fit is emitted, whatever happened before it
RejectedFitDoesNotAbort ==
    \A r \in RegressionRecords :
        r.calculation_method = "continuous_regression" =>
            LET rows == PresentIn(r.original_column, MinTime(CallTimeData).v,
                                  MaxTime(CallTimeData).v)
            IN  \A k \in 1..Len(rows) :
                    LET t == CallTimeData[rows[k]].v
                        window == TwoSided(r, t)
                    IN  (/\ Len(window) >= 5
                         /\ Len(window) >= Len(rows) \div 100
                         /\ AcceptedFit(r, window))
                        => EmittedAt(r, t) # {}

-----------------------------------------------------------------------------
(* The evaluation range of moving_regression                               *)

MovingRecords ==
    { r \in SlopeRecords : r.calculation_method = "moving_regression" }

HalfWindow(r) == r.window_minutes.v \div 2

\* the window of every emitted fit of r is the symmetric one and holds at
\* least three valid samples
SymmetricWindows(r) ==
    \A j \in 1..Len(r.times) :
        /\ r.n_points[j] >= 3
        /\ r.n_points[j] = Len(PresentIn(r.original_column,
                                         r.times[j] - HalfWindow(r),
                                         r.times[j] + HalfWindow(r)))

\* a moving_regression call whose range leaves no room for a window
\* returned the empty map
EmptyWhenRangeTooSmall ==
    (/\ Returns
     /\ last.args.method = "moving_regression"
     /\ Len(inp.data.rows) > 0 /\ last.args.selected_columns # <<>>
     /\ MinTime(CallTimeData) # MNaN
     /\ LET half == (IF last.args.window_minutes = None
                     THEN 2 * last.args.interval_minutes.v
                     ELSE last.args.window_minutes.v) \div 2
        IN  MinTime(CallTimeData).v + half >= MaxTime(CallTimeData).v - half)
    => last.ret.value = EmptyDict

\* C22: moving regression evaluation range: every emitted time t satisfies
\* min_time + window/2 <= t <= max_time - window/2, each emitted fit uses
\* the symmetric window [t - window/2, t + window/2] with at least 3 valid
\* samples, and when min_time + window/2 >= max_time - window/2 the result
\* map is empty
C22_MovingEvaluationRange ==
    /\ \A r \in MovingRecords :
           /\ \A j \in 1..Len(r.times) :
                  /\ MinTime(CallTimeData).v + HalfWindow(r) <= r.times[j]
                  /\ r.times[j] <= MaxTime(CallTimeData).v - HalfWindow(r)
           /\ SymmetricWindows(r)
    /\ EmptyWhenRangeTooSmall

\* what the code keeps: the emitted times start at min_time + window/2 and
\* stay below the stop of np.arange, max_time - window/2 + 0.001 h; the
\* windows are symmetric and a range too small gives the empty map
MovingTimesBelowArangeStop ==
    /\ \A r \in MovingRecords :
           /\ \A j \in 1..Len(r.times) :
                  /\ MinTime(CallTimeData).v + HalfWindow(r) <= r.times[j]
                  /\ r.times[j] < MaxTime(CallTimeData).v - HalfWindow(r) + ArangeEps
           /\ SymmetricWindows(r)
    /\ EmptyWhenRangeTooSmall

-----------------------------------------------------------------------------
(* continuous_regression evaluates at the sample timestamps                *)

ContinuousRecords ==
    { r \in SlopeRecords : r.calculation_method = "continuous_regression" }

\* the rows of the table with a time and a value of col, in row order
SampleRows(col) ==
    SelectSeq([i \in 1..Len(inp.data.rows) |-> i],
              LAMBDA i : /\ CallTimeData[i].k = "num"
                         /\ inp.data.rows[i][col].k = "num")

\* the sample rows of r's column whose window holds enough valid samples
\* and whose fit is accepted
QualifyingSamples(r) ==
    LET rows == SampleRows(r.original_column)
        N == Len(rows)
        M == IF N \div 100 > 5 THEN N \div 100 ELSE 5
    IN  SelectSeq(rows,
            LAMBDA i : LET window == TwoSided(r, CallTimeData[i].v)
                       IN  Len(window) >= M /\ AcceptedFit(r, window))

\* C23: continuous regression evaluates at sample timestamps only: the
\* times of a record are, in row order, the timestamps of exactly those
\* valid samples of the column whose window [t - left_window,
\* t + right_window] holds at least max(5, int(0.01 * N)) valid samples and
\* whose fit is accepted, N being the number of valid samples; so
\* len(times) <= N
C23_ContinuousAtSampleTimes ==
    \A r \in ContinuousRecords :
        /\ r.times = TimesOf(CallTimeData, QualifyingSamples(r))
        /\ Len(r.times) <= Len(SampleRows(r.original_column))

\* a continuous_regression record that emitted for some samples of its
\* column and passed over others, from a table with a missing value
C23_Witness ==
    \E r \in ContinuousRecords :
        /\ Len(r.times) >= 2
        /\ Len(r.times) < Len(SampleRows(r.original_column))
        /\ Len(SampleRows(r.original_column)) < Len(inp.data.rows)

-----------------------------------------------------------------------------
(* The two-point method as a forward difference                            *)

IntervalBasedRecords ==
    { r \in SlopeRecords : r.calculation_method = "interval_based" }

\* the cadence points of the latest interval_based call
CadenceOf(r) ==
    Arange(MinTime(CallTimeData).v, MaxTime(CallTimeData).v + ArangeEps,
           r.interval_minutes)

\* the difference quotients of the piecewise-linear interpolant over the
\* valid samples of r's column, in ppm/hour, one for each cadence point but
\* the last: over [t_i, t_{i+1}], or with cut over
\* [t_i, min(t_{i+1}, max_time)]; None where that interval is empty or the
\* interpolant has no value
ForwardDifferences(r, cut) ==
    LET cadence == CadenceOf(r)
        rows == SampleRows(r.original_column)
        xs == TimesOf(CallTimeData, rows)
        ys == ValuesOf(inp.data, r.original_column, rows)
        max_time == MaxTime(CallTimeData).v
    IN  [i \in 1..(Len(cadence) - 1) |->
            LET t1 == cadence[i]
                t2 == IF cut THEN Min2(cadence[i + 1], max_time)
                      ELSE cadence[i + 1]
                value1 == Interp1d(xs, ys, t1)
                value2 == Interp1d(xs, ys, t2)
            IN  IF t2 <= t1 \/ value1.k = "nan" \/ value2.k = "nan" THEN None
                ELSE FracMul(FracDivInt(FracSub(value2.v, value1.v), t2 - t1),
                             FracInt(TicksPerHour))]

\* every slope of r is labelled by a cadence point other than the last and
\* equals the difference quotient starting there; there are fewer slopes
\* than cadence points
LabelledAtLeftEdge(r, cut) ==
    LET cadence == CadenceOf(r)
        quotients == ForwardDifferences(r, cut)
    IN  /\ \A j \in 1..Len(r.times) :
               \E i \in 1..(Len(cadence) - 1) :
                   /\ cadence[i] = r.times[j]
                   /\ RegressionSlopes(r)[j] = quotients[i]
        /\ Len(r.slopes) <= Len(cadence) - 1

\* C24: the two-point method is a forward difference labelled at the left
\* edge: each slope emitted by interval_based with label t_i is
\* (value(t_{i+1}) - value(t_i)) / (t_{i+1} - t_i) for consecutive cadence
\* points of the piecewise-linear interpolant; the last cadence point never
\* labels a slope, so there are at most (number of cadence points - 1)
\* slopes
C24_ForwardDifference ==
    \A r \in IntervalBasedRecords : LabelledAtLeftEdge(r, FALSE)

\* C24 as the code has it: the right end of the interval is the next
\* cadence point or, when that lies past the last sample time, the last
\* sample time
C24_ForwardDifferenceWithinRange ==
    \A r \in IntervalBasedRecords : LabelledAtLeftEdge(r, TRUE)

\* a record with a slope over an interval cut at the last sample time and
\* a slope over a whole interval
C24_Witness ==
    \E r \in IntervalBasedRecords :
        LET cadence == CadenceOf(r)
            max_time == MaxTime(CallTimeData).v
        IN  /\ Len(r.times) >= 2
            /\ \E i \in 1..(Len(cadence) - 1) :
                   /\ cadence[i] = r.times[Len(r.times)]
                   /\ cadence[i + 1] > max_time
            /\ LabelledAtLeftEdge(r, TRUE)

-----------------------------------------------------------------------------
(* SpecSmooth: one _apply_savgol_smoothing call on a result map drawn      *)
(* initially from the maps calculate_slopes produces without smoothing     *)

SmoothTables ==
    { t \in SlopeTables : /\ "relative_time" \in t.cols
                          /\ Len(t.rows) \in {5, MaxSlopeRows}
                          /\ \A i \in 1..Len(t.rows) :
                                 /\ t.rows[i]["relative_time"].k = "num"
                                 /\ t.rows[i]["c1"].k = "num" }

SmoothInputs ==
    { m \in { calculate_slopes(t, a.selected_columns, a.time_column,
                  a.interval_minutes, a.method, a.window_minutes,
                  a.left_window_minutes, a.right_window_minutes,
                  a.calculation_interval_seconds, FALSE, a.smooth_window,
                  a.smooth_order) : t \in SmoothTables, a \in MethodArgs } :
        m.k = "return" /\ DOMAIN m.value # {} }

SmoothParams == {<<15, 2>>, <<3, 1>>, <<2, 2>>, <<3, 3>>, <<5, 0>>, <<5, 2>>}

ApplySavgolSmoothing(slope_results, window_length, polyorder) ==
    /\ last' = [op |-> "_apply_savgol_smoothing",
                window_length |-> window_length, polyorder |-> polyorder,
                ret |-> apply_savgol_smoothing(slope_results, window_length,
                                               polyorder),
                argument |-> ArgumentAfterSmoothing(slope_results,
                                                    window_length, polyorder)]
    /\ UNCHANGED <<f1, f2, p_ref, hist_set, inp, slope_data, log>>

InitSmooth ==
    /\ Construct /\ SlopeCalculatorInit
    /\ inp \in { [slope_results |-> m.value] : m \in SmoothInputs }

NextSmooth ==
    /\ last.op = "init"
    /\ \E p \in SmoothParams : ApplySavgolSmoothing(inp.slope_results, p[1], p[2])

SpecSmooth == InitSmooth /\ [][NextSmooth]_vars

SmoothingFields ==
    {"original_slopes", "smoothed", "smooth_method", "smooth_window",
     "smooth_order", "noise_reduction_percent"}

-----------------------------------------------------------------------------
(* SlopeCalculator.export_slope_data                                       *)
(* slope_results is the sequence of the dict's items in insertion order,   *)
(* each [col, times, slopes]; times in ticks, slopes whole ppm/hour. The   *)
(* exported table is [columns, data]: the column names in order and the    *)
(* cells of each column, FracInt-valued numbers or NaN.                    *)

EmptyFrame == [columns |-> <<>>, data |-> EmptyDict]
NumCell(f) == [k |-> "num", v |-> f]
NanCell == [k |-> "nan"]

\* np.allclose(a, b) with its defaults rtol = 1e-5, atol = 1e-8 (hours):
\* |a - b| <= atol + rtol * |b| at every position; in ticks and multiplied
\* by 1e5, 1e5 * |a - b| <= 3 + |b|, which for whole ticks is
\* |a - b| <= (3 + |b|) div 1e5
AllCloseRtolInverse == 10 ^ 5
AllCloseAtol == 3 * 1
AllClose(a, b) ==
    \A i \in 1..Len(a) :
        Abs(a[i] - b[i]) <= (AllCloseAtol + Abs(b[i])) \div AllCloseRtolInverse

\* np.interp(x, xp, fp, left=nan, right=nan) at one x, xp increasing and
\* not empty
NpInterp(x, xp, fp) ==
    LET n == Len(xp)
    IN  IF x < xp[1] \/ x > xp[n] THEN NanCell
        ELSE IF x = xp[n] THEN NumCell(FracInt(fp[n]))
        ELSE LET seg == CHOOSE i \in 1..(n - 1) : xp[i] <= x /\ x < xp[i + 1]
                 dx == xp[seg + 1] - xp[seg]
             IN  NumCell(Frac(fp[seg] * dx + (fp[seg + 1] - fp[seg]) * (x - xp[seg]),
                              dx))

\* the first column with the most times: the loop replaces base_times only
\* on a strictly greater length
RECURSIVE BaseIndex(_, _, _, _)
BaseIndex(slope_results, i, max_length, base) ==
    IF i > Len(slope_results) THEN base
    ELSE IF Len(slope_results[i].times) > max_length
    THEN BaseIndex(slope_results, i + 1, Len(slope_results[i].times), i)
    ELSE BaseIndex(slope_results, i + 1, max_length, base)

\* faulty variant: out-of-range requests take the value at the nearest end
ExportColumn_Extrapolated(item, base_times) ==
    IF Len(item.times) = Len(base_times) /\ AllClose(item.times, base_times)
    THEN [j \in 1..Len(base_times) |-> NumCell(FracInt(item.slopes[j]))]
    ELSE [j \in 1..Len(base_times) |->
             IF base_times[j] < item.times[1]
             THEN NumCell(FracInt(item.slopes[1]))
             ELSE IF base_times[j] > item.times[Len(item.times)]
             THEN NumCell(FracInt(item.slopes[Len(item.slopes)]))
             ELSE NpInterp(base_times[j], item.times, item.slopes)]

\* one exported column: the slopes as they are when the times match the
\* base times, else interpolated onto them
ExportColumn(item, base_times) ==
    IF Len(item.times) = Len(base_times) /\ AllClose(item.times, base_times)
    THEN [j \in 1..Len(base_times) |-> NumCell(FracInt(item.slopes[j]))]
    ELSE [j \in 1..Len(base_times) |->
             NpInterp(base_times[j], item.times, item.slopes)]

SlopeColumnName(col) == col \o "_slope"

export_slope_data(slope_results) ==
    IF slope_results = <<>> THEN Returned(EmptyFrame)
    ELSE LET base == BaseIndex(slope_results, 1, 0, 0)
         IN  IF base = 0 THEN Returned(EmptyFrame)
             ELSE LET base_times == slope_results[base].times
                      n == Len(slope_results)
                  IN  IF \E i \in 1..n :
                             /\ Len(slope_results[i].times) = 0
                         THEN Raised("ValueError")
                         ELSE Returned(
                                [columns |-> <<"time_hours">> \o
                                     [i \in 1..n |-> SlopeColumnName(slope_results[i].col)],
                                 data |->
                                     [c \in {"time_hours"} \cup
                                            {SlopeColumnName(slope_results[i].col) : i \in 1..n} |->
                                         IF c = "time_hours"
                                         THEN [j \in 1..Len(base_times) |->
                                                  NumCell(FracInt(base_times[j]))]
                                         ELSE LET i == CHOOSE k \in 1..n :
                                                     SlopeColumnName(slope_results[k].col) = c
                                              IN  ExportColumn(slope_results[i],
                                                               base_times)]])

ExportSlopeData(slope_results) ==
    /\ last' = [op |-> "export_slope_data", ret |-> export_slope_data(slope_results)]
    /\ UNCHANGED <<f1, f2, p_ref, hist_set, inp, slope_data, log>>

(* SpecExport: one export_slope_data call on a result map drawn initially  *)

MaxExportCols == 2

\* time axes: two that start late in a long run and lie one tick apart
LateStart == 10 ^ 5
ExportAxes ==
    { <<>>, <<0, 10>>, <<0, 10, 20>>, <<5, 15>>, <<5, 15, 25, 35>>,
      <<LateStart, LateStart + 10>>, <<LateStart + 1, LateStart + 11>> }
ExportSlopes(times) ==
    { [j \in 1..Len(times) |-> 7], [j \in 1..Len(times) |-> 10 * j] }
ExportNames == <<"c1", "c2", "c3", "c4">>
ExportColumns ==
    { [times |-> t, slopes |-> sl] : t \in ExportAxes, sl \in UNION {ExportSlopes(t) : t \in ExportAxes} }
ExportItems ==
    { c \in ExportColumns : Len(c.times) = Len(c.slopes) }
ExportMaps ==
    UNION { { [i \in 1..n |-> [col |-> ExportNames[i], times |-> f[i].times,
                               slopes |-> f[i].slopes]] :
                f \in [1..n -> ExportItems] } : n \in 0..MaxExportCols }

InitExport == Construct /\ SlopeCalculatorInit /\ inp \in [slope_results : ExportMaps]

NextExport ==
    /\ last.op = "init"
    /\ ExportSlopeData(inp.slope_results)

SpecExport == InitExport /\ [][NextExport]_vars

\* the most slope points any column of the exported map has
MostPoints(items) ==
    IF items = <<>> THEN 0
    ELSE CHOOSE m \in {Len(items[i].times) : i \in 1..Len(items)} :
             \A i \in 1..Len(items) : Len(items[i].times) <= m

\* the first column with the most points
ReferenceColumn(items) ==
    CHOOSE i \in 1..Len(items) :
        /\ Len(items[i].times) = MostPoints(items)
        /\ \A k \in 1..(i - 1) : Len(items[k].times) < MostPoints(items)

\* reference time t lies outside the range of the time axis times
OutsideRange(t, times) ==
    times = <<>> \/ t < times[1] \/ t > times[Len(times)]

\* the exported table has the reference column's times as its rows, and a
\* column with another time axis is missing at every reference time
\* outside its own range
AlignedOnReference(items, ret) ==
    /\ ret.k = "return"
    /\ LET base == items[ReferenceColumn(items)].times
           frame == ret.value
       IN  /\ "time_hours" \in DOMAIN frame.data
           /\ frame.data["time_hours"]
                  = [j \in 1..Len(base) |-> NumCell(FracInt(base[j]))]
           /\ \A i \in 1..Len(items) :
                  /\ SlopeColumnName(items[i].col) \in DOMAIN frame.data
                  /\ Len(frame.data[SlopeColumnName(items[i].col)]) = Len(base)
                  /\ items[i].times # base =>
                         \A j \in 1..Len(base) :
                             OutsideRange(base[j], items[i].times) =>
                                 frame.data[SlopeColumnName(items[i].col)][j] = NanCell

\* C26: export_slope_data alignment: the exported table has exactly one row
\* per time of the column with the most slope points (the first such
\* column on ties); a column whose time axis differs from that reference
\* axis has a missing value, not an extrapolated one, at every reference
\* time outside its own [first time, last time] range; an empty result
\* map, or one whose columns all have zero points, exports an empty table
C26_ExportAlignment ==
    last.op = "export_slope_data" =>
        IF MostPoints(inp.slope_results) = 0
        THEN last.ret = Returned(EmptyFrame)
        ELSE AlignedOnReference(inp.slope_results, last.ret)

\* every column of the map has a slope point, as in every map
\* calculate_slopes returns
NoEmptyColumn(items) == \A i \in 1..Len(items) : Len(items[i].times) > 0

\* a column of the map has a time axis that differs from the reference
\* axis and that np.allclose takes for the same
CloseButDifferent(items) ==
    \E i \in 1..Len(items) :
        LET base == items[ReferenceColumn(items)].times
        IN  /\ items[i].times # base
            /\ Len(items[i].times) = Len(base)
            /\ AllClose(items[i].times, base)

\* the alignment holds on every map without an empty column whose axes are
\* equal to the reference axis or not close to it
ExportAlignsDistinctAxes ==
    (/\ last.op = "export_slope_data"
     /\ MostPoints(inp.slope_results) > 0
     /\ NoEmptyColumn(inp.slope_results)
     /\ ~CloseButDifferent(inp.slope_results))
    => AlignedOnReference(inp.slope_results, last.ret)

\* the alignment on the maps without an empty column, the shape of every
\* map calculate_slopes returns: it fails for two axes of equal length one
\* tick apart late in a run, which np.allclose takes for the same
AlignedWithoutEmptyColumn ==
    (/\ last.op = "export_slope_data"
     /\ NoEmptyColumn(inp.slope_results)
     /\ inp.slope_results # <<>>)
    => AlignedOnReference(inp.slope_results, last.ret)

-----------------------------------------------------------------------------
(* The left-only fallback of interval regression                           *)

\* max(10, int(0.05 * number of evaluation timestamps)) of a record's call
DynamicMinimum(r) ==
    LET five_percent == (Len(EvaluationTimes(r)) * 5) \div 100
    IN  IF five_percent > 10 THEN five_percent ELSE 10

\* every sample of the left-only window of t is in the two-sided window
LeftOnlyWithinTwoSided(r, t) ==
    LET both == TwoSided(r, t)
        left_only == LeftOnly(r, t)
    IN  {left_only[i] : i \in 1..Len(left_only)}
            \subseteq {both[k] : k \in 1..Len(both)}

\* C27: in interval_regression, whenever right_window_minutes >= 0 the
\* left-only window [t - left_window, t] is a subset of the two-sided
\* window, so the left-only fallback never rescues a timestamp: the
\* n_points of every emitted slope is the number of valid samples in the
\* two-sided window, and a timestamp whose two-sided window has fewer than
\* the dynamic minimum is always skipped
C27_FallbackNeverRescues ==
    \A r \in IntervalRegressionRecords :
        r.right_window_minutes >= 0 =>
            LET calc_times == EvaluationTimes(r)
                M == DynamicMinimum(r)
            IN  /\ \A j \in 1..Len(r.times) :
                       \E i \in 1..Len(calc_times) : calc_times[i] = r.times[j]
                /\ \A i \in 1..Len(calc_times) :
                       LET t == calc_times[i]
                           in_both == Len(TwoSided(r, t))
                       IN  /\ LeftOnlyWithinTwoSided(r, t)
                           /\ \A j \in EmittedAt(r, t) :
                                  r.n_points[j] = in_both
                           /\ in_both < M => EmittedAt(r, t) = {}

\* a record with a right window of positive width: one timestamp was
\* emitted, and another, whose two-sided window is too small and whose
\* left-only window is smaller still but not empty, was skipped
C27_Witness ==
    \E r \in IntervalRegressionRecords :
        LET calc_times == EvaluationTimes(r)
        IN  /\ r.right_window_minutes > 0
            /\ r.times # <<>>
            /\ \E i \in 1..Len(calc_times) :
                   /\ Len(TwoSided(r, calc_times[i])) < DynamicMinimum(r)
                   /\ Len(LeftOnly(r, calc_times[i])) > 0
                   /\ Len(LeftOnly(r, calc_times[i]))
                          < Len(TwoSided(r, calc_times[i]))
                   /\ EmittedAt(r, calc_times[i]) = {}

-----------------------------------------------------------------------------
(* Columns with too few samples have no record                             *)

\* the latest call was calculate_slopes with this method and returned a map
ReturnedBy(method) ==
    /\ last.op = "calculate_slopes"
    /\ last.args.method = method
    /\ last.ret.k = "return"

\* the side windows of the latest call, the declared default for None
CallLeft ==
    IF last.args.left_window_minutes = None THEN DefaultSideMinutes
    ELSE last.args.left_window_minutes.v
CallRight ==
    IF last.args.right_window_minutes = None THEN DefaultSideMinutes
    ELSE last.args.right_window_minutes.v

\* the evaluation timestamps of the latest call under interval_regression
CallEvaluationTimes ==
    IF MinTime(CallTimeData) = MNaN THEN <<>>
    ELSE Arange(MinTime(CallTimeData).v, MaxTime(CallTimeData).v + ArangeEps,
                last.args.calculation_interval_seconds)

\* some evaluation window of the latest call holds M valid samples of col
SomeWindowHolds(col, M) ==
    LET calc_times == CallEvaluationTimes
    IN  \E i \in 1..Len(calc_times) :
            Len(PresentIn(col, calc_times[i] - CallLeft,
                          calc_times[i] + CallRight)) >= M

\* C28: under interval_regression a column is absent from the result
\* whenever no evaluation window holds at least
\* max(10, int(0.05 * number of evaluation timestamps)) valid samples; so
\* every column with fewer than 10 valid samples is absent, even with 3 or
\* more, and under continuous_regression every column with fewer than 5
\* valid samples is absent
C28_TooFewSamplesAbsent ==
    \A col \in inp.data.cols :
        /\ ReturnedBy("interval_regression") =>
               LET five_percent == (Len(CallEvaluationTimes) * 5) \div 100
                   M == IF five_percent > 10 THEN five_percent ELSE 10
               IN  /\ ~SomeWindowHolds(col, M) => col \notin DOMAIN last.ret.value
                   /\ Len(SampleRows(col)) < 10 => col \notin DOMAIN last.ret.value
        /\ ReturnedBy("continuous_regression") =>
               (Len(SampleRows(col)) < 5 => col \notin DOMAIN last.ret.value)

\* interval_regression was asked for a column of the table that has three
\* or more valid samples, fewer than ten, and returned no record for it
C28_Witness ==
    /\ ReturnedBy("interval_regression")
    /\ \E i \in 1..Len(last.args.selected_columns) :
           LET col == last.args.selected_columns[i]
           IN  /\ col \in inp.data.cols
               /\ Len(SampleRows(col)) >= 3
               /\ Len(SampleRows(col)) < 10
               /\ col \notin DOMAIN last.ret.value

\* continuous_regression was asked for a column of the table that has three
\* or four valid samples and returned no record for it
ContinuousFourSamplesAbsent ==
    /\ ReturnedBy("continuous_regression")
    /\ \E i \in 1..Len(last.args.selected_columns) :
           LET col == last.args.selected_columns[i]
           IN  /\ col \in inp.data.cols
               /\ Len(SampleRows(col)) \in {3, 4}
               /\ col \notin DOMAIN last.ret.value

-----------------------------------------------------------------------------
(* batch_calibrate keys its result by the moisture column                  *)

\* the record calibrate_single_pair gives for the i-th pair of the latest
\* batch_calibrate call, None if the pair cannot be calibrated
PairRecord(i) ==
    calibrate_single_pair(f1, f2, p_ref, last.df,
                          last.pairs[i][1], last.pairs[i][2])

\* the pairs of the latest call that name moisture_col and calibrate
PairsOf(moisture_col) ==
    { i \in 1..Len(last.pairs) :
        last.pairs[i][1] = moisture_col /\ PairRecord(i) # None }

SetMax(S) == CHOOSE x \in S : \A y \in S : y <= x

\* C29: batch_calibrate keys its result by "<moisture_col>_calib" only:
\* when pairs of the list share a moisture column, name different pressure
\* columns and calibrate successfully, the result holds one entry for the
\* moisture column, the record of the pair that comes later in the list;
\* the number of entries never exceeds the number of distinct moisture
\* columns
C29_KeyedByMoistureColumn ==
    last.op = "batch_calibrate" =>
        LET moisture_cols == {last.pairs[i][1] : i \in 1..Len(last.pairs)}
        IN  /\ \A m \in moisture_cols :
                   PairsOf(m) # {} =>
                       /\ CalibColumn(m) \in DOMAIN last.ret
                       /\ last.ret[CalibColumn(m)] = PairRecord(SetMax(PairsOf(m)))
            /\ DOMAIN last.ret \subseteq {CalibColumn(m) : m \in moisture_cols}
            /\ Cardinality(DOMAIN last.ret) <= Cardinality(moisture_cols)

\* two pairs with the same moisture column and different pressure columns
\* both calibrated, to different records, and the result holds the later
C29_Witness ==
    /\ last.op = "batch_calibrate"
    /\ \E i, j \in 1..Len(last.pairs) :
           /\ i < j
           /\ last.pairs[i][1] = last.pairs[j][1]
           /\ last.pairs[i][2] # last.pairs[j][2]
           /\ PairRecord(i) # None
           /\ PairRecord(j) # None
           /\ PairRecord(i) # PairRecord(j)
           /\ DOMAIN last.ret = {CalibColumn(last.pairs[j][1])}
           /\ last.ret[CalibColumn(last.pairs[j][1])] = PairRecord(j)

-----------------------------------------------------------------------------
(* The keys and records of the result map                                  *)

\* the requested columns of the latest call that the table has
RequestedInTable ==
    { last.args.selected_columns[i] :
        i \in 1..Len(last.args.selected_columns) } \cap inp.data.cols

\* C30: every result map returned by calculate_slopes, for any method and
\* with smoothing on or off, has keys among the requested columns that
\* exist in the table, and every record in it holds at least one slope: a
\* column for which no slope was emitted is absent, never present with
\* empty arrays
C30_KeysAndNonEmptyRecords ==
    (last.op = "calculate_slopes" /\ last.ret.k = "return") =>
        /\ DOMAIN last.ret.value \subseteq RequestedInTable
        /\ \A col \in DOMAIN last.ret.value :
               /\ Len(last.ret.value[col].slopes) >= 1
               /\ Len(last.ret.value[col].times) >= 1

\* a call with smoothing on was asked for a column of the table with three
\* or more valid samples, emitted no slope for it and returned a map
\* without it
C30_Witness ==
    /\ last.op = "calculate_slopes"
    /\ last.ret.k = "return"
    /\ last.args.smoothing
    /\ \E col \in RequestedInTable :
           /\ Len(SampleRows(col)) >= 3
           /\ col \notin DOMAIN last.ret.value

\* a call asked for a column the table lacks and one it has, and returned
\* a record for the latter only
RequestedOutsideTablePassedOver ==
    /\ last.op = "calculate_slopes"
    /\ last.ret.k = "return"
    /\ \E i \in 1..Len(last.args.selected_columns) :
           last.args.selected_columns[i] \notin inp.data.cols
    /\ DOMAIN last.ret.value # {}
    /\ DOMAIN last.ret.value = RequestedInTable

====
